---- MODULE Spec2Model ----
(***************************************************************************)
(* The signing service of src/signer: sign_request dispatches a request to *)
(* the legacy gpg path (sign_legacy, with import_legacy_key) or to the     *)
(* remote signing authority (sign_request_retriable), both wrapped by the  *)
(* retrying decorator, and publishes the signature location in redis;      *)
(* get_signature_file reads it back.                                       *)
(***************************************************************************)
EXTENDS Naturals, Sequences, FiniteSets, TLC

(***************************************************************************)
(* Bounds of the model.                                                    *)
(***************************************************************************)
\* number of signature files the model lets the backends create
MaxFiles == 3
\* length of the KEY_CODES strings is_valid_keycode is checked with
MaxCodesLen == 3
\* length of the key ids is_valid_keycode is checked with
MaxKeyLen == 2
\* number of items in the list of results of a response
MaxResults == 2

(***************************************************************************)
(* Program constants.                                                      *)
(***************************************************************************)
\* @retry(stop_max_attempt_number=10, ...)
stop_max_attempt_number == 10
\* @retry(..., wait_exponential_multiplier=1000, ...)
wait_exponential_multiplier == 1000
\* @retry(..., wait_exponential_max=60000)
wait_exponential_max == 60000

\* the request-handling workers that may run sign_request concurrently
Workers == {"w1", "w2"}
\* correlation ids (task ids) of the requests
TaskIds == {"t1", "t2"}

\* The key id that selects the legacy path: key_id == "legacy".
LegacyKeyId == <<"l", "e", "g", "a", "c", "y">>
\* settings.KEY_CODES, a ';'-separated string (here "k1;k2")
settings_KEY_CODES == <<"k", "1", ";", "k", "2">>
\* settings.LEGACY_KEY_THUMBPRINT
settings_LEGACY_KEY_THUMBPRINT == "THUMB"
\* the key ids requests arrive with: legacy, a configured code, an unknown code
KeyIds == {LegacyKeyId, <<"k", "1">>, <<"x", "9">>}

\* outcomes of util.run_cmd_out: exit status 0, a non-zero exit status, or an
\* exception of subprocess (the command could not be run)
CmdOutcomes == {"rc0", "rc1", "raise"}
\* outcomes of esrp.sign_content: a signature file ("ok") or an exception, of one
\* of the types line 111 names or of any other type ("Exception")
EsrpOutcomes ==
    {"ok", "ESRPAuthException", "ValueError", "ClientAuthenticationError", "Exception"}
\* outcomes of lines 63-69 of sign_legacy: those of running gpg, and a ValueError
\* raised on the way (writing the unsigned file, building the command)
SignLegacyOutcomes == CmdOutcomes \cup {"ValueError"}
\* outcomes of a call that returns or raises
CallOutcomes == {"ok", "raise"}

None == "none"
\* no file path
NoPath == <<>>

VARIABLES
    pc,         \* pc[w]: where worker w stands in sign_request
    key_id,     \* key_id[w]: the key id of w's current call
    task_id,    \* task_id[w]: the correlation id of w's current call
    keycode_error, \* keycode_error[w]: w's current call logged "Invalid key specified"
    attempt,    \* attempt[w]: attempt number of the retrying wrapper (1..10)
    waited,     \* waited[w]: milliseconds the wrapper slept in this call
    nInvoke,    \* nInvoke[w]: invocations of the signing backend in this call
    lastOutcome, \* lastOutcome[w]: outcome of the latest backend invocation of this call
    otherFail,  \* otherFail[w]: an attempt of this call failed elsewhere than in the backend
    nPut,       \* nPut[w]: redis.set calls of this call that stored the record
    dst_file,   \* dst_file[w]: the signature file the backend produced last in this call
    res_list,   \* res_list[w]: result of the gpg --list-secret-keys of this import_legacy_key
    legacy_key_path, \* legacy_key_path[w]: the temporary key file of w's latest import_legacy_key
    ret,        \* ret[w]: what w's last sign_request returned
    redis,      \* the Result Store: redis key -> stored bytes
    fs,         \* signature files on disk: path -> content
    nextFile,   \* number of the next temporary file
    keystore,   \* thumbprints of the secret keys in the gpg keystore
    response,   \* the task and the outcome of the latest get_signature_file
    putLog,     \* putLog[t]: the files of the redis.set calls that stored a record for t, in order
    KEY_CODES,  \* settings.KEY_CODES of the running process
    keycode_check, \* the latest call of is_valid_keycode: its argument and its result
    ctx,        \* the PMCContext of the command line client: id_only, isatty, no_color, pager
    PYGMENTS,   \* client.PYGMENTS: the import of pygments succeeded
    output,     \* the JSON document the command of the client is about to print
    echoed,     \* what the command of the client has written (typer.echo, the pager)
    reading,    \* a get_signature_file call running beside sign_request: its position and locals
    cid,        \* ctx.cid of the command line client: the correlation id, a hex string
    sent,       \* the requests the client has sent: x-correlation-id, url and the status answered
    poll,       \* handle_response / poll_task of the client: position, arguments and locals
    Account,    \* the rows of the server's Account table
    RepoAccess, \* the rows of the server's RepoAccess table: <<account id, repo id>>
    auth,       \* the request the server's auth dependencies are handling, and their outcome
    lookup      \* a call of package_lookup: its arguments, what Pulp holds, and its outcome

\* the state of the signing service
signerVars == <<pc, key_id, task_id, keycode_error, attempt, waited, nInvoke, lastOutcome,
                otherFail, nPut, dst_file, res_list, legacy_key_path, ret, redis, fs,
                nextFile, keystore, response, putLog>>
\* the settings and what the steps of sign_request and get_signature_file leave alone
\* the state of a run of the command line client
cliVars == <<ctx, PYGMENTS, output, echoed>>
\* the requests and the polling of the command line client
clientVars == <<cid, sent, poll>>
\* the state of the API server
serverVars == <<Account, RepoAccess, auth, lookup>>
otherVars == <<KEY_CODES, keycode_check, cliVars, reading, clientVars, serverVars>>

vars == <<signerVars, otherVars>>

(***************************************************************************)
(* Pure helpers.                                                           *)
(***************************************************************************)
\* an index that leaves the task id out: every id gets the same key
get_signature_index_constant(t) == "task_id" \o "_signature"
\* get_signature_index: f'{task_id}_signature'
get_signature_index(t) == t \o "_signature"

\* str.split(sep): the pieces of s between the separators; "" gives [""]
RECURSIVE Split(_, _)
Split(s, sep) ==
    IF \A i \in DOMAIN s : s[i] # sep
    THEN <<s>>
    ELSE LET i == CHOOSE j \in DOMAIN s :
                      s[j] = sep /\ \A k \in 1..(j - 1) : s[k] # sep
         IN  <<SubSeq(s, 1, i - 1)>> \o Split(SubSeq(s, i + 1, Len(s)), sep)

\* config.is_valid_keycode: key_id in settings.KEY_CODES.split(";")
is_valid_keycode(k) ==
    LET key_codes == Split(KEY_CODES, ";")
    IN  \E i \in DOMAIN key_codes : key_codes[i] = k

\* redis stores bytes: redis.set encodes the str it is given as utf-8
str_encode(s) == <<"bytes", s>>
\* redis.get(...).decode('utf-8')
bytes_decode(b) == b[2]

\* the path of temporary file number n
Path(n) == <<"/tmp/file", n>>
\* the requests of one run of the client that the model follows
MaxIds == 2
MaxQueries == 2
MaxRequests == 4
\* the detached signature the n-th signing writes into its file
Signature(n) == <<"signature", n>>

\* retrying's exponential_sleep: the wait after attempt n, in milliseconds
RECURSIVE Pow2(_)
Pow2(n) == IF n = 0 THEN 1 ELSE 2 * Pow2(n - 1)
\* exponential_sleep without wait_exponential_max: the delay keeps doubling
exponential_sleep_uncapped(n) == Pow2(n) * wait_exponential_multiplier
\* exponential_sleep with the exponent counted from 0 at the first retry
exponential_sleep_from_one(n) ==
    LET result == wait_exponential_multiplier * Pow2(n - 1)
    IN  IF result > wait_exponential_max THEN wait_exponential_max ELSE result
exponential_sleep(n) ==
    LET result == wait_exponential_multiplier * Pow2(n)
    IN  IF result > wait_exponential_max THEN wait_exponential_max ELSE result

\* truth value of what sign_request returned (a CompletedProcess object is truthy)
Truthy(v) == v \in {"True", "CompletedProcess"}

(***************************************************************************)
(* get_signature_file, as a function of the store and the disk.            *)
(***************************************************************************)
\* redis.exists(key)
redis_exists(key) == key \in DOMAIN redis
\* get_signature_file answering a missing file like a missing record
get_signature_file_miss_for_no_file(t) ==
    LET signature_key == get_signature_index(t)
    IN  IF ~redis_exists(signature_key) \/ bytes_decode(redis[signature_key]) \notin DOMAIN fs
        THEN [kind |-> "raise", exc |-> "NameError"]
        ELSE [kind |-> "return", content |-> fs[bytes_decode(redis[signature_key])]]
\* get_signature_file(task_id): line 131 evaluates the name Response, which the
\* module never binds, so the miss branch raises NameError
get_signature_file(t) ==
    LET signature_key == get_signature_index(t)
    IN  IF ~redis_exists(signature_key)
        THEN [kind |-> "raise", exc |-> "NameError"]
        ELSE LET sig_file == bytes_decode(redis[signature_key])
             IN  IF sig_file \in DOMAIN fs
                 THEN [kind |-> "return", content |-> fs[sig_file]]
                 ELSE [kind |-> "raise", exc |-> "FileNotFoundError"]

(***************************************************************************)
(* The initial state: no call running and an empty store; the keystore of  *)
(* the host is empty or holds the legacy key of an earlier run.            *)
(***************************************************************************)
\* no listing: import_legacy_key has not listed the keys in this call yet
NoListing == [rc |-> None, found |-> FALSE, present |-> FALSE, logged |-> FALSE]
NoResponse == [task |-> None, out |-> [kind |-> None]]
\* is_valid_keycode has not been called
NoCheck == [called |-> FALSE, key_id |-> <<>>, result |-> FALSE]

\* no get_signature_file call is running
NoReading == [pc |-> "idle", task_id |-> None, sig_file |-> NoPath, out |-> [kind |-> None]]

\* the command line client has sent nothing and handles no response
NoTask == [id |-> None, state |-> None]
NoErr == [waiting |-> None, dots |-> 0, newline |-> FALSE, done |-> FALSE]
NoPoll == [pc |-> "idle", task_id |-> None, task_handler |-> None, quiet |-> FALSE,
           suppress_pager |-> FALSE, task |-> NoTask, slept |-> 0, handled |-> <<>>,
           err |-> NoErr, exc |-> None]
ClientIdle ==
    /\ cid = <<"0">>
    /\ sent = <<>>
    /\ poll = NoPoll
\* the API server has empty tables and handles no request
NoAccount == [id |-> None]
NoAuth == [pc |-> "idle", oid |-> None, account |-> NoAccount, status |-> None,
           detail |-> None, check |-> None, repo |-> None]
NoLookup == [pc |-> "idle"]
ServerIdle ==
    /\ Account = {}
    /\ RepoAccess = {}
    /\ auth = NoAuth
    /\ lookup = NoLookup

InitSigner ==
    /\ pc = [w \in Workers |-> "idle"]
    /\ key_id = [w \in Workers |-> <<>>]
    /\ task_id = [w \in Workers |-> None]
    /\ keycode_error = [w \in Workers |-> FALSE]
    /\ attempt = [w \in Workers |-> 0]
    /\ waited = [w \in Workers |-> 0]
    /\ nInvoke = [w \in Workers |-> 0]
    /\ lastOutcome = [w \in Workers |-> None]
    /\ otherFail = [w \in Workers |-> FALSE]
    /\ nPut = [w \in Workers |-> 0]
    /\ dst_file = [w \in Workers |-> NoPath]
    /\ res_list = [w \in Workers |-> NoListing]
    /\ legacy_key_path = [w \in Workers |-> None]
    /\ ret = [w \in Workers |-> None]
    /\ redis = <<>>
    /\ fs = <<>>
    /\ nextFile = 1
    /\ keystore \in SUBSET {settings_LEGACY_KEY_THUMBPRINT}
    /\ response = NoResponse
    /\ putLog = [t \in TaskIds |-> <<>>]
    /\ keycode_check = NoCheck
    /\ reading = NoReading

\* no run of the command line client
NoDoc == [type |-> None, id |-> None, task |-> None, results |-> [set |-> FALSE, items |-> <<>>]]
NoOutput == [via |-> None, lines |-> <<>>, nl |-> FALSE, coloured |-> FALSE]
CliIdle ==
    /\ ctx = [id_only |-> FALSE, isatty |-> FALSE, no_color |-> FALSE, pager |-> FALSE]
    /\ PYGMENTS = FALSE
    /\ output = NoDoc
    /\ echoed = NoOutput

\* the service started with the settings of this deployment
Init ==
    /\ InitSigner
    /\ ClientIdle
    /\ ServerIdle
    /\ KEY_CODES = settings_KEY_CODES
    /\ CliIdle

(***************************************************************************)
(* The retrying decorator of sign_legacy and sign_request_retriable.       *)
(***************************************************************************)
\* should_stop with an off-by-one comparison: an 11th attempt is made
should_stop_late(n) == n > stop_max_attempt_number
\* should_stop giving up one attempt early
should_stop_early(n) == n >= stop_max_attempt_number - 1
\* retrying's stop_after_attempt: no further attempt after attempt n
should_stop(n) == n >= stop_max_attempt_number

\* sign_request without its except clauses: the exception reaches the caller
sign_request_reraise == "raised"
\* sign_request, lines 86-88 and 93-95: an exception that leaves the wrapper is
\* logged and the call returns False
sign_request_except == "False"

\* the legacy path with import_legacy_key called before the wrapped function:
\* a retry goes straight to the signing utility
FirstStep_sign_only(w) == IF key_id[w] = LegacyKeyId THEN "gpg_sign" ELSE "sign_content"
\* where an attempt of w's wrapped function begins
FirstStep(w) == IF key_id[w] = LegacyKeyId THEN "list" ELSE "sign_content"

\* a wrapper without a stop condition: after the last attempt it starts over
Raised_restarting(w) ==
    IF should_stop(attempt[w])
    THEN /\ pc' = [pc EXCEPT ![w] = FirstStep(w)]
         /\ attempt' = [attempt EXCEPT ![w] = 1]
         /\ waited' = [waited EXCEPT ![w] = 0]
         /\ UNCHANGED ret
    ELSE /\ pc' = [pc EXCEPT ![w] = FirstStep(w)]
         /\ attempt' = [attempt EXCEPT ![w] = @ + 1]
         /\ waited' = [waited EXCEPT ![w] = @ + exponential_sleep(attempt[w])]
         /\ UNCHANGED ret
\* The wrapped function raised in attempt[w]: the wrapper sleeps and calls it
\* again, or, after the last attempt, re-raises to sign_request.
Raised(w) ==
    IF should_stop(attempt[w])
    THEN /\ pc' = [pc EXCEPT ![w] = "done"]
         /\ ret' = [ret EXCEPT ![w] = sign_request_except]
         /\ UNCHANGED <<attempt, waited>>
    ELSE /\ pc' = [pc EXCEPT ![w] = FirstStep(w)]
         /\ attempt' = [attempt EXCEPT ![w] = @ + 1]
         /\ waited' = [waited EXCEPT ![w] = @ + exponential_sleep(attempt[w])]
         /\ UNCHANGED ret

(***************************************************************************)
(* sign_request: the dispatch.                                             *)
(***************************************************************************)
\* the dispatch made after the keycode check: a legacy value that is a
\* configured key code goes to the remote authority
is_legacy_unless_keycode(k) == k = LegacyKeyId /\ ~is_valid_keycode(k)
\* line 83: the legacy path is taken for key_id == "legacy"
is_legacy(k) == k = LegacyKeyId

\* sign_request returning False for a key id that fails the keycode check
sign_request_rejecting(w, k, t) ==
    /\ pc[w] \in {"idle", "done"}
    /\ key_id' = [key_id EXCEPT ![w] = k]
    /\ task_id' = [task_id EXCEPT ![w] = t]
    /\ keycode_error' = [keycode_error EXCEPT ![w] = ~is_legacy(k) /\ ~is_valid_keycode(k)]
    /\ pc' = [pc EXCEPT ![w] = IF is_legacy(k) THEN "list"
                               ELSE IF is_valid_keycode(k) THEN "sign_content"
                               ELSE "done"]
    /\ attempt' = [attempt EXCEPT ![w] = 1]
    /\ waited' = [waited EXCEPT ![w] = 0]
    /\ nInvoke' = [nInvoke EXCEPT ![w] = 0]
    /\ lastOutcome' = [lastOutcome EXCEPT ![w] = None]
    /\ otherFail' = [otherFail EXCEPT ![w] = FALSE]
    /\ nPut' = [nPut EXCEPT ![w] = 0]
    /\ dst_file' = [dst_file EXCEPT ![w] = NoPath]
    /\ res_list' = [res_list EXCEPT ![w] = NoListing]
    /\ legacy_key_path' = [legacy_key_path EXCEPT ![w] = None]
    /\ ret' = [ret EXCEPT ![w] =
                   IF is_legacy(k) \/ is_valid_keycode(k) THEN None ELSE "False"]
    /\ response' = NoResponse
    /\ UNCHANGED <<otherVars, redis, fs, nextFile, keystore, putLog>>

\* sign_request storing an "in progress" record under the id when it starts
sign_request_marking(w, k, t) ==
    /\ pc[w] \in {"idle", "done"}
    /\ key_id' = [key_id EXCEPT ![w] = k]
    /\ task_id' = [task_id EXCEPT ![w] = t]
    /\ keycode_error' = [keycode_error EXCEPT ![w] = ~is_legacy(k) /\ ~is_valid_keycode(k)]
    /\ pc' = [pc EXCEPT ![w] = IF is_legacy(k) THEN "list" ELSE "sign_content"]
    /\ attempt' = [attempt EXCEPT ![w] = 1]
    /\ waited' = [waited EXCEPT ![w] = 0]
    /\ nInvoke' = [nInvoke EXCEPT ![w] = 0]
    /\ lastOutcome' = [lastOutcome EXCEPT ![w] = None]
    /\ otherFail' = [otherFail EXCEPT ![w] = FALSE]
    /\ nPut' = [nPut EXCEPT ![w] = 0]
    /\ dst_file' = [dst_file EXCEPT ![w] = NoPath]
    /\ res_list' = [res_list EXCEPT ![w] = NoListing]
    /\ legacy_key_path' = [legacy_key_path EXCEPT ![w] = None]
    /\ ret' = [ret EXCEPT ![w] = None]
    /\ response' = NoResponse
    /\ redis' = (get_signature_index(t) :> str_encode(<<"in progress">>)) @@ redis
    /\ UNCHANGED <<otherVars, fs, nextFile, keystore, putLog>>

\* lines 83-95: the legacy key id goes to sign_legacy; any other key id, after the
\* keycode check that only logs (lines 89-90), to sign_request_retriable
sign_request(w, k, t) ==
    /\ pc[w] \in {"idle", "done"}
    /\ key_id' = [key_id EXCEPT ![w] = k]
    /\ task_id' = [task_id EXCEPT ![w] = t]
    /\ keycode_error' = [keycode_error EXCEPT ![w] = ~is_legacy(k) /\ ~is_valid_keycode(k)]
    /\ pc' = [pc EXCEPT ![w] = IF is_legacy(k) THEN "list" ELSE "sign_content"]
    /\ attempt' = [attempt EXCEPT ![w] = 1]
    /\ waited' = [waited EXCEPT ![w] = 0]
    /\ nInvoke' = [nInvoke EXCEPT ![w] = 0]
    /\ lastOutcome' = [lastOutcome EXCEPT ![w] = None]
    /\ otherFail' = [otherFail EXCEPT ![w] = FALSE]
    /\ nPut' = [nPut EXCEPT ![w] = 0]
    /\ dst_file' = [dst_file EXCEPT ![w] = NoPath]
    /\ res_list' = [res_list EXCEPT ![w] = NoListing]
    /\ legacy_key_path' = [legacy_key_path EXCEPT ![w] = None]
    /\ ret' = [ret EXCEPT ![w] = None]
    /\ response' = NoResponse
    /\ UNCHANGED <<otherVars, redis, fs, nextFile, keystore, putLog>>

(***************************************************************************)
(* sign_request_retriable: one attempt on the remote path.                 *)
(***************************************************************************)
\* sign_request_retriable without the except clause of line 111: every
\* exception is re-raised to the wrapper
NonRetriable_none(e) == FALSE
\* the except clause of line 111 without ValueError
NonRetriable_auth_only(e) == e \in {"ESRPAuthException", "ClientAuthenticationError"}
\* line 111: the exception types that are not retried
NonRetriable(e) == e \in {"ESRPAuthException", "ValueError", "ClientAuthenticationError"}

\* line 106: esrp.sign_content returns a signature file or raises
sign_content(w, outcome) ==
    /\ pc[w] = "sign_content"
    /\ nInvoke' = [nInvoke EXCEPT ![w] = @ + 1]
    /\ lastOutcome' = [lastOutcome EXCEPT ![w] = outcome]
    /\ IF outcome = "ok"
       THEN /\ nextFile <= MaxFiles
            /\ dst_file' = [dst_file EXCEPT ![w] = Path(nextFile)]
            /\ fs' = (Path(nextFile) :> Signature(nextFile)) @@ fs
            /\ nextFile' = nextFile + 1
            /\ pc' = [pc EXCEPT ![w] = "redis_set"]
            /\ UNCHANGED <<attempt, waited, ret>>
       ELSE /\ IF NonRetriable(outcome)
               THEN \* lines 111-114: logged, return False
                    /\ pc' = [pc EXCEPT ![w] = "done"]
                    /\ ret' = [ret EXCEPT ![w] = "False"]
                    /\ UNCHANGED <<attempt, waited>>
               ELSE \* lines 115-118: logged, re-raised to the wrapper
                    Raised(w)
            /\ UNCHANGED <<dst_file, fs, nextFile, response, putLog>>
    /\ UNCHANGED <<otherVars, key_id, task_id, keycode_error, otherFail, nPut, res_list, legacy_key_path,
                   redis, keystore, response, putLog>>

\* the legacy path returning the exit status of gpg, which is 0
ReturnValue_exit_status(w) == IF key_id[w] = LegacyKeyId THEN "0" ELSE "True"
\* what the wrapped function returns after the set: True on the remote path
\* (line 110), the CompletedProcess res on the legacy path (line 75)
ReturnValue(w) == IF is_legacy(key_id[w]) THEN "CompletedProcess" ELSE "True"

\* the key built without interpolating the task id
signature_key_literal(w) == get_signature_index("{task_id}")
\* the key redis.set writes: get_signature_index(task_id), lines 71 and 107
signature_key(w) == get_signature_index(task_id[w])

\* a SET that is not atomic: a reader can find the value partly written
redis_put_torn(store, key, value) == (key :> <<value[1], <<value[2][1]>>>>) @@ store
\* SET with nx=True: a key that holds a value keeps it
redis_put_nx(store, key, value) ==
    IF key \in DOMAIN store THEN store ELSE (key :> value) @@ store
\* redis SET: the value replaces whatever the key held
redis_put(store, key, value) == (key :> value) @@ store

\* redis.set that writes the record and then raises: a failed attempt leaves
\* its location in the store
redis_set_written_before_raise(w, outcome) ==
    /\ pc[w] = "redis_set"
    /\ IF outcome = "ok"
       THEN /\ redis' = redis_put(redis, signature_key(w), str_encode(dst_file[w]))
            /\ putLog' = [putLog EXCEPT ![task_id[w]] = Append(@, dst_file[w])]
            /\ nPut' = [nPut EXCEPT ![w] = @ + 1]
            /\ pc' = [pc EXCEPT ![w] = "done"]
            /\ ret' = [ret EXCEPT ![w] = ReturnValue(w)]
            /\ UNCHANGED <<attempt, waited, otherFail>>
       ELSE /\ otherFail' = [otherFail EXCEPT ![w] = TRUE]
            /\ Raised(w)
            /\ redis' = redis_put(redis, signature_key(w), str_encode(dst_file[w]))
            /\ UNCHANGED <<nPut, putLog>>
    /\ UNCHANGED <<otherVars, key_id, task_id, keycode_error, nInvoke, lastOutcome, dst_file, res_list,
                   legacy_key_path, fs, nextFile, keystore, response>>
\* redis.set called by sign_request after the wrapper has returned: an error
\* of the set ends the call with False and the backend is not invoked again
redis_set_outside_wrapper(w, outcome) ==
    /\ pc[w] = "redis_set"
    /\ IF outcome = "ok"
       THEN /\ redis' = redis_put(redis, signature_key(w), str_encode(dst_file[w]))
            /\ putLog' = [putLog EXCEPT ![task_id[w]] = Append(@, dst_file[w])]
            /\ nPut' = [nPut EXCEPT ![w] = @ + 1]
            /\ pc' = [pc EXCEPT ![w] = "done"]
            /\ ret' = [ret EXCEPT ![w] = ReturnValue(w)]
            /\ UNCHANGED <<attempt, waited, otherFail>>
       ELSE /\ otherFail' = [otherFail EXCEPT ![w] = TRUE]
            /\ pc' = [pc EXCEPT ![w] = "done"]
            /\ ret' = [ret EXCEPT ![w] = sign_request_except]
            /\ UNCHANGED <<attempt, waited, redis, nPut, putLog>>
    /\ UNCHANGED <<otherVars, key_id, task_id, keycode_error, nInvoke, lastOutcome, dst_file, res_list,
                   legacy_key_path, fs, nextFile, keystore, response>>
\* lines 109 and 72: redis.set(signature_key, file) stores the record and the
\* function returns, or raises (the store cannot be reached) and stores nothing
redis_set(w, outcome) ==
    /\ pc[w] = "redis_set"
    /\ IF outcome = "ok"
       THEN /\ redis' = redis_put(redis, signature_key(w), str_encode(dst_file[w]))
            /\ putLog' = [putLog EXCEPT ![task_id[w]] = Append(@, dst_file[w])]
            /\ nPut' = [nPut EXCEPT ![w] = @ + 1]
            /\ pc' = [pc EXCEPT ![w] = "done"]
            /\ ret' = [ret EXCEPT ![w] = ReturnValue(w)]
            /\ UNCHANGED <<attempt, waited, otherFail>>
       ELSE /\ otherFail' = [otherFail EXCEPT ![w] = TRUE]
            /\ Raised(w)
            /\ UNCHANGED <<redis, nPut, putLog>>
    /\ UNCHANGED <<otherVars, key_id, task_id, keycode_error, nInvoke, lastOutcome, dst_file, res_list,
                   legacy_key_path, fs, nextFile, keystore, response>>

(***************************************************************************)
(* import_legacy_key, called at the start of every attempt of sign_legacy. *)
(***************************************************************************)
\* what gpg --list-secret-keys may print: the keystore's keys when it exits
\* with 0; when it fails, the keys or nothing
ListingStdout(outcome) == IF outcome = "rc0" THEN {keystore} ELSE {keystore, {}}

\* the test of line 36 negated
thumbprint_found_negated(stdout) == settings_LEGACY_KEY_THUMBPRINT \notin stdout
\* line 36: settings.LEGACY_KEY_THUMBPRINT in res.stdout
thumbprint_found(stdout) == settings_LEGACY_KEY_THUMBPRINT \in stdout

\* import_legacy_key raising when the listing exits with a non-zero status
list_secret_keys_abort(w, outcome, stdout) ==
    /\ pc[w] = "list"
    /\ legacy_key_path' = [legacy_key_path EXCEPT ![w] = None]
    /\ IF outcome = "raise"
       THEN /\ otherFail' = [otherFail EXCEPT ![w] = TRUE]
            /\ Raised(w)
            /\ res_list' = [res_list EXCEPT ![w] = NoListing]
       ELSE /\ stdout \in ListingStdout(outcome)
            /\ res_list' = [res_list EXCEPT ![w] =
                   [rc |-> outcome, found |-> thumbprint_found(stdout),
                    present |-> settings_LEGACY_KEY_THUMBPRINT \in keystore,
                    logged |-> outcome # "rc0"]]
            /\ IF outcome = "rc1"
               THEN /\ otherFail' = [otherFail EXCEPT ![w] = TRUE]
                    /\ Raised(w)
               ELSE /\ pc' = [pc EXCEPT ![w] =
                           IF thumbprint_found(stdout) THEN "gpg_sign" ELSE "get_secret"]
                    /\ UNCHANGED <<attempt, waited, ret, otherFail>>
    /\ UNCHANGED <<otherVars, key_id, task_id, keycode_error, nInvoke, lastOutcome, nPut, dst_file,
                   redis, fs, nextFile, keystore, response, putLog>>

\* import_legacy_key under a lock held from the listing to the end of the import
list_secret_keys_locked(w, outcome, stdout) ==
    /\ pc[w] = "list"
    /\ \A v \in Workers \ {w} : pc[v] \notin {"get_secret", "gpg_import"}
    /\ legacy_key_path' = [legacy_key_path EXCEPT ![w] = None]
    /\ IF outcome = "raise"
       THEN /\ otherFail' = [otherFail EXCEPT ![w] = TRUE]
            /\ Raised(w)
            /\ res_list' = [res_list EXCEPT ![w] = NoListing]
       ELSE /\ stdout \in ListingStdout(outcome)
            /\ res_list' = [res_list EXCEPT ![w] =
                   [rc |-> outcome, found |-> thumbprint_found(stdout),
                    present |-> settings_LEGACY_KEY_THUMBPRINT \in keystore,
                    logged |-> outcome # "rc0"]]
            /\ pc' = [pc EXCEPT ![w] =
                   IF thumbprint_found(stdout) THEN "gpg_sign" ELSE "get_secret"]
            /\ UNCHANGED <<attempt, waited, ret, otherFail>>
    /\ UNCHANGED <<otherVars, key_id, task_id, keycode_error, nInvoke, lastOutcome, nPut, dst_file,
                   redis, fs, nextFile, keystore, response, putLog>>

\* lines 31-38: list the secret keys; a non-zero exit status is logged and the
\* check of the output goes on; the key found, import_legacy_key returns
list_secret_keys(w, outcome, stdout) ==
    /\ pc[w] = "list"
    /\ legacy_key_path' = [legacy_key_path EXCEPT ![w] = None]
    /\ IF outcome = "raise"
       THEN /\ otherFail' = [otherFail EXCEPT ![w] = TRUE]
            /\ Raised(w)
            /\ res_list' = [res_list EXCEPT ![w] = NoListing]
       ELSE /\ stdout \in ListingStdout(outcome)
            /\ res_list' = [res_list EXCEPT ![w] =
                   [rc |-> outcome, found |-> thumbprint_found(stdout),
                    present |-> settings_LEGACY_KEY_THUMBPRINT \in keystore,
                    logged |-> outcome # "rc0"]]
            /\ pc' = [pc EXCEPT ![w] =
                   IF thumbprint_found(stdout) THEN "gpg_sign" ELSE "get_secret"]
            /\ UNCHANGED <<attempt, waited, ret, otherFail>>
    /\ UNCHANGED <<otherVars, key_id, task_id, keycode_error, nInvoke, lastOutcome, nPut, dst_file,
                   redis, fs, nextFile, keystore, response, putLog>>

\* lines 40-45: fetch the key from the vault and write it to a temporary file;
\* keyvault_util() and get_secret raise when the vault cannot be reached
get_secret(w, outcome) ==
    /\ pc[w] = "get_secret"
    /\ IF outcome = "ok"
       THEN /\ legacy_key_path' = [legacy_key_path EXCEPT ![w] = "on disk"]
            /\ pc' = [pc EXCEPT ![w] = "gpg_import"]
            /\ UNCHANGED <<attempt, waited, ret, otherFail>>
       ELSE /\ otherFail' = [otherFail EXCEPT ![w] = TRUE]
            /\ Raised(w)
            /\ UNCHANGED legacy_key_path
    /\ UNCHANGED <<otherVars, key_id, task_id, keycode_error, nInvoke, lastOutcome, nPut, dst_file, res_list,
                   redis, fs, nextFile, keystore, response, putLog>>

\* lines 50-51: util.secure_delete runs after run_cmd_out has returned, with any
\* exit status; an exception of run_cmd_out leaves line 50 and skips it
key_file_after_import(outcome) == IF outcome = "raise" THEN "on disk" ELSE "deleted"

\* lines 49-54: gpg --import of the temporary file, its deletion, and the
\* exception for a non-zero exit status
gpg_import(w, outcome) ==
    /\ pc[w] = "gpg_import"
    /\ legacy_key_path' = [legacy_key_path EXCEPT ![w] = key_file_after_import(outcome)]
    /\ IF outcome = "rc0"
       THEN /\ keystore' = keystore \cup {settings_LEGACY_KEY_THUMBPRINT}
            /\ pc' = [pc EXCEPT ![w] = "gpg_sign"]
            /\ UNCHANGED <<attempt, waited, ret, otherFail>>
       ELSE /\ otherFail' = [otherFail EXCEPT ![w] = TRUE]
            /\ Raised(w)
            /\ UNCHANGED keystore
    /\ UNCHANGED <<otherVars, key_id, task_id, keycode_error, nInvoke, lastOutcome, nPut, dst_file, res_list,
                   redis, fs, nextFile, response, putLog>>

(***************************************************************************)
(* sign_legacy: the rest of one attempt on the legacy path.                *)
(***************************************************************************)
\* lines 63-75: write the unsigned file, run gpg --detach-sign; exit status 0
\* leads to the redis.set of line 72, any other outcome raises
gpg_sign(w, outcome) ==
    /\ pc[w] = "gpg_sign"
    /\ nInvoke' = [nInvoke EXCEPT ![w] = @ + 1]
    /\ lastOutcome' = [lastOutcome EXCEPT ![w] = outcome]
    /\ res_list' = [res_list EXCEPT ![w] = NoListing]
    /\ IF outcome = "rc0"
       THEN /\ settings_LEGACY_KEY_THUMBPRINT \in keystore
            /\ nextFile <= MaxFiles
            /\ dst_file' = [dst_file EXCEPT ![w] = Path(nextFile)]
            /\ fs' = (Path(nextFile) :> Signature(nextFile)) @@ fs
            /\ nextFile' = nextFile + 1
            /\ pc' = [pc EXCEPT ![w] = "redis_set"]
            /\ UNCHANGED <<attempt, waited, ret>>
       ELSE /\ Raised(w)
            /\ UNCHANGED <<dst_file, fs, nextFile, response, putLog>>
    /\ UNCHANGED <<otherVars, key_id, task_id, keycode_error, otherFail, nPut, legacy_key_path,
                   redis, keystore, response, putLog>>

(***************************************************************************)
(* A caller asks for the signature of a task: get_signature_file runs and  *)
(* its outcome goes back to the caller.                                    *)
(***************************************************************************)
retrieve(t) ==
    /\ response' = [task |-> t, out |-> get_signature_file(t)]
    /\ UNCHANGED <<otherVars, pc, key_id, task_id, keycode_error, attempt, waited, nInvoke, lastOutcome,
                   otherFail, nPut, dst_file, res_list, legacy_key_path, ret,
                   redis, fs, nextFile, keystore, putLog>>

(***************************************************************************)
(* get_signature_file statement by statement, for a call that runs while   *)
(* sign_request calls run: each access to the store is one step.           *)
(***************************************************************************)
\* lines 121-126: the call starts
get_signature_file_call(t) ==
    /\ reading.pc \in {"idle", "done"}
    /\ reading' = [NoReading EXCEPT !.pc = "exists", !.task_id = t]
    /\ UNCHANGED <<signerVars, KEY_CODES, keycode_check, cliVars, clientVars, serverVars>>

\* lines 127-131: redis.exists(signature_key); the miss branch raises NameError
get_signature_file_exists ==
    /\ reading.pc = "exists"
    /\ reading' = IF redis_exists(get_signature_index(reading.task_id))
                  THEN [reading EXCEPT !.pc = "get"]
                  ELSE [reading EXCEPT !.pc = "done",
                                       !.out = [kind |-> "raise", exc |-> "NameError"]]
    /\ UNCHANGED <<signerVars, KEY_CODES, keycode_check, cliVars, clientVars, serverVars>>

\* line 132: sig_file = redis.get(signature_key).decode('utf-8'); redis.get gives
\* None for a key that is gone, and None has no decode
get_signature_file_get ==
    /\ reading.pc = "get"
    /\ reading' = IF redis_exists(get_signature_index(reading.task_id))
                  THEN [reading EXCEPT !.pc = "open",
                            !.sig_file = bytes_decode(redis[get_signature_index(reading.task_id)])]
                  ELSE [reading EXCEPT !.pc = "done",
                                       !.out = [kind |-> "raise", exc |-> "AttributeError"]]
    /\ UNCHANGED <<signerVars, KEY_CODES, keycode_check, cliVars, clientVars, serverVars>>

\* lines 133-135: open(sig_file) and read it
get_signature_file_open ==
    /\ reading.pc = "open"
    /\ reading' = [reading EXCEPT !.pc = "done",
                       !.out = IF reading.sig_file \in DOMAIN fs
                               THEN [kind |-> "return", content |-> fs[reading.sig_file]]
                               ELSE [kind |-> "raise", exc |-> "FileNotFoundError"]]
    /\ UNCHANGED <<signerVars, KEY_CODES, keycode_check, cliVars, clientVars, serverVars>>

(***************************************************************************)
(* The steps of one worker, and the service with one request at a time.    *)
(***************************************************************************)
Step(w) ==
    \/ \E k \in KeyIds, t \in TaskIds : sign_request(w, k, t)
    \/ \E o \in EsrpOutcomes : sign_content(w, o)
    \/ \E o \in CallOutcomes : redis_set(w, o)
    \/ \E o \in CmdOutcomes, out \in SUBSET {settings_LEGACY_KEY_THUMBPRINT} :
          list_secret_keys(w, o, out)
    \/ \E o \in CallOutcomes : get_secret(w, o)
    \/ \E o \in CmdOutcomes : gpg_import(w, o)
    \/ \E o \in SignLegacyOutcomes : gpg_sign(w, o)

\* the worker of a service that handles one request at a time
Sequential == {"w1"}

\* no sign_request is running
NoneRunning == \A w \in Sequential : pc[w] \in {"idle", "done"}

Next ==
    \/ \E w \in Sequential : Step(w)
    \/ NoneRunning /\ \E t \in TaskIds : retrieve(t)

Spec == Init /\ [][Next]_vars

(***************************************************************************)
(* The service on a host where signature files can disappear: the records  *)
(* hold paths of temporary files, which the service itself never deletes   *)
(* and a cleaner of the temporary directory or an operator may remove.     *)
(* The backends, the vault and the store work.                             *)
(***************************************************************************)
\* the file f is removed from the disk; the store keeps its record
remove_file(f) ==
    /\ f \in DOMAIN fs
    /\ fs' = [g \in DOMAIN fs \ {f} |-> fs[g]]
    /\ UNCHANGED <<otherVars, pc, key_id, task_id, keycode_error, attempt, waited, nInvoke,
                   lastOutcome, otherFail, nPut, dst_file, res_list, legacy_key_path,
                   ret, redis, nextFile, keystore, response, putLog>>

\* the steps of a worker when every command and call succeeds
StepOk(w) ==
    \/ \E k \in KeyIds, t \in TaskIds : sign_request(w, k, t)
    \/ sign_content(w, "ok")
    \/ redis_set(w, "ok")
    \/ list_secret_keys(w, "rc0", keystore)
    \/ get_secret(w, "ok")
    \/ gpg_import(w, "rc0")
    \/ gpg_sign(w, "rc0")

NextFiles ==
    \/ \E w \in Sequential : StepOk(w)
    \/ NoneRunning /\ \E t \in TaskIds : retrieve(t)
    \/ \E n \in 1..MaxFiles : remove_file(Path(n))

SpecFiles == Init /\ [][NextFiles]_vars

(***************************************************************************)
(* One sign_request call, from its start to its return and the retrieval   *)
(* that follows, in a process whose KEY_CODES name the legacy value among   *)
(* the key codes or do not.                                                 *)
(***************************************************************************)
\* KEY_CODES with "legacy" as one of the key codes: "k1;k2;legacy"
KEY_CODES_with_legacy == settings_KEY_CODES \o <<";">> \o LegacyKeyId

InitOneCall ==
    /\ InitSigner
    /\ ClientIdle
    /\ ServerIdle
    /\ KEY_CODES \in {settings_KEY_CODES, KEY_CODES_with_legacy}
    /\ CliIdle

NextOneCall ==
    \/ \E w \in Sequential : pc[w] # "done" /\ Step(w)
    \/ NoneRunning /\ \E t \in TaskIds : retrieve(t)

SpecOneCall == InitOneCall /\ [][NextOneCall]_vars

(***************************************************************************)
(* One sign_request call in which every invocation of a backend, the vault *)
(* and the store returns or raises: a call that has started takes its next *)
(* step.                                                                   *)
(***************************************************************************)
\* the next step of the running call
RunningStep == \E w \in Sequential : pc[w] \notin {"idle", "done"} /\ Step(w)

SpecOneCallFair == InitOneCall /\ [][NextOneCall]_vars /\ WF_vars(RunningStep)

(***************************************************************************)
(* Two workers of the service, each handling one request, and callers that *)
(* ask for signatures meanwhile, their steps interleaved; every command    *)
(* and call succeeds.                                                      *)
(***************************************************************************)
NextConcurrent ==
    \/ \E w \in Workers : pc[w] # "done" /\ StepOk(w)
    \/ \E t \in TaskIds : get_signature_file_call(t)
    \/ get_signature_file_exists
    \/ get_signature_file_get
    \/ get_signature_file_open

SpecConcurrent == Init /\ [][NextConcurrent]_vars

(***************************************************************************)
(* config.is_valid_keycode, called with any key id under any KEY_CODES.    *)
(***************************************************************************)
\* the strings over the characters S of length up to n
Strings(S, n) == UNION {[1..m -> S] : m \in 0..n}

\* a process started with some KEY_CODES: nothing, one code, several codes,
\* with or without empty items
InitKeycode ==
    /\ InitSigner
    /\ ClientIdle
    /\ ServerIdle
    /\ KEY_CODES \in Strings({"a", "b", ";"}, MaxCodesLen)
    /\ CliIdle

\* lines 30-32: is_valid_keycode(key_id) is called and returns
call_is_valid_keycode(k) ==
    /\ keycode_check' = [called |-> TRUE, key_id |-> k, result |-> is_valid_keycode(k)]
    /\ UNCHANGED <<signerVars, KEY_CODES, cliVars, reading, clientVars, serverVars>>

NextKeycode == \E k \in Strings({"a", "b"}, MaxKeyLen) : call_is_valid_keycode(k)

SpecKeycode == InitKeycode /\ [][NextKeycode]_vars

(***************************************************************************)
(* The command line client (src/cli/pmc/client.py): output_json prints the *)
(* response of a command, as ids or as JSON text.                          *)
(***************************************************************************)
\* constants.LIST_SEPARATOR
LIST_SEPARATOR == ","

\* the items of a list of results, each with its id
ResultLists == UNION {[1..n -> [id : {"r1", "r2"}]] : n \in 0..MaxResults}
\* the JSON documents a command prints: an object, with or without the keys
\* "id", "task" and "results" (a value None stands for a missing key or null),
\* or a list of items
Docs ==
    [type : {"dict"}, id : {None, "", "a"}, task : {None, "", "t"},
     results : [set : {TRUE}, items : ResultLists] \cup {[set |-> FALSE, items |-> <<>>]}]
    \cup
    [type : {"list"}, id : {None}, task : {None},
     results : [set : {TRUE}, items : ResultLists]]

\* truth value of a str or None
str_truth(v) == v \notin {None, ""}
\* what _extract_ids returns for None; output_json tests only its truth value,
\* which is that of the empty list
NoIds == <<>>

\* _extract_ids, lines 114-126, with "task" looked up before "id"
extract_ids_task_first(resp_json) ==
    IF resp_json.type = "dict"
    THEN IF str_truth(resp_json.task) THEN <<resp_json.task>>
         ELSE IF str_truth(resp_json.id) THEN <<resp_json.id>>
         ELSE IF resp_json.results.set /\ resp_json.results.items # <<>>
              THEN [i \in DOMAIN resp_json.results.items |-> resp_json.results.items[i].id]
              ELSE NoIds
    ELSE IF Len(resp_json.results.items) > 0 /\ str_truth(resp_json.results.items[1].id)
         THEN [i \in DOMAIN resp_json.results.items |-> resp_json.results.items[i].id]
         ELSE NoIds
\* _extract_ids, lines 114-126
extract_ids(resp_json) ==
    IF resp_json.type = "dict"
    THEN IF str_truth(resp_json.id) THEN <<resp_json.id>>
         ELSE IF str_truth(resp_json.task) THEN <<resp_json.task>>
         ELSE IF resp_json.results.set /\ resp_json.results.items # <<>>
              THEN [i \in DOMAIN resp_json.results.items |-> resp_json.results.items[i].id]
              ELSE NoIds
    ELSE IF Len(resp_json.results.items) > 0 /\ str_truth(resp_json.results.items[1].id)
         THEN [i \in DOMAIN resp_json.results.items |-> resp_json.results.items[i].id]
         ELSE NoIds

\* sep.join(ids) for a non-empty list of str
RECURSIVE join(_, _)
join(sep, ids) ==
    IF Len(ids) = 1 THEN ids[1] ELSE ids[1] \o sep \o join(sep, Tail(ids))

\* json.dumps(output, indent=3), as the list of its lines
Quote(x) == "\"" \o x \o "\""
WithComma(block) == [block EXCEPT ![Len(block)] = @ \o ","]
RECURSIVE JoinBlocks(_)
JoinBlocks(blocks) ==
    IF blocks = <<>> THEN <<>>
    ELSE IF Len(blocks) = 1 THEN blocks[1]
    ELSE WithComma(blocks[1]) \o JoinBlocks(Tail(blocks))
ItemBlock(item, indent) ==
    <<indent \o "{", indent \o "   \"id\": " \o Quote(item.id), indent \o "}">>
ListBlock(items, indent, head) ==
    IF items = <<>>
    THEN <<indent \o head \o "[]">>
    ELSE <<indent \o head \o "[">>
         \o JoinBlocks([i \in DOMAIN items |-> ItemBlock(items[i], indent \o "   ")])
         \o <<indent \o "]">>
json_dumps(doc) ==
    IF doc.type = "list"
    THEN ListBlock(doc.results.items, "", "")
    ELSE LET fields ==
                 (IF doc.id # None THEN << <<"   \"id\": " \o Quote(doc.id)>> >> ELSE <<>>)
                 \o (IF doc.task # None
                     THEN << <<"   \"task\": " \o Quote(doc.task)>> >> ELSE <<>>)
                 \o (IF doc.results.set
                     THEN <<ListBlock(doc.results.items, "   ", "\"results\": ")>>
                     ELSE <<>>)
         IN  IF fields = <<>> THEN <<"{}">> ELSE <<"{">> \o JoinBlocks(fields) \o <<"}">>

\* a command is run: its context, the import of pygments and the document to print
InitCli ==
    /\ InitSigner
    /\ ClientIdle
    /\ ServerIdle
    /\ KEY_CODES = settings_KEY_CODES
    /\ ctx \in [id_only : BOOLEAN, isatty : BOOLEAN, no_color : BOOLEAN, pager : BOOLEAN]
    /\ PYGMENTS \in BOOLEAN
    /\ output \in Docs
    /\ echoed = NoOutput

\* output_json(ctx, output, suppress_pager), lines 160-177, on a terminal of
\* terminal_lines lines: the ids through typer.echo with nl=ctx.isatty, or the
\* JSON text, highlighted when pygments is there and colour is wanted, through
\* the pager or through typer.echo with its newline
output_json(suppress_pager, terminal_lines) ==
    /\ echoed = NoOutput
    /\ LET ids == extract_ids(output)
       IN  IF ctx.id_only /\ ids # NoIds
           THEN echoed' = [via |-> "echo", lines |-> <<join(LIST_SEPARATOR, ids)>>,
                           nl |-> ctx.isatty, coloured |-> FALSE]
           ELSE LET json_output == json_dumps(output)
                IN  IF /\ ctx.pager
                       /\ ~suppress_pager
                       /\ Len(json_output) - 1 > terminal_lines - 3
                    THEN echoed' = [via |-> "pager", lines |-> json_output,
                                    nl |-> FALSE, coloured |-> PYGMENTS /\ ~ctx.no_color]
                    ELSE echoed' = [via |-> "echo", lines |-> json_output,
                                    nl |-> TRUE, coloured |-> PYGMENTS /\ ~ctx.no_color]
    /\ UNCHANGED <<signerVars, KEY_CODES, keycode_check, ctx, PYGMENTS, output, reading,
                   clientVars, serverVars>>

NextCli == \E suppress_pager \in BOOLEAN, terminal_lines \in {5, 24} :
               output_json(suppress_pager, terminal_lines)

SpecCli == InitCli /\ [][NextCli]_vars

(***************************************************************************)
(* The command line client waiting for a task (src/cli/pmc/client.py):     *)
(* handle_response, poll_task, and the hooks of the client that            *)
(* create_client builds, which run on every request and response.          *)
(***************************************************************************)
\* int(s, 16) and format(i, "x"), on strings given as sequences of characters
HexDigits == <<"0", "1", "2", "3", "4", "5", "6", "7", "8", "9", "a", "b", "c", "d", "e", "f">>
HexValue(c) == CHOOSE v \in 0..15 : HexDigits[v + 1] = c
RECURSIVE int16(_)
int16(s) ==
    IF Len(s) = 0 THEN 0 ELSE 16 * int16(SubSeq(s, 1, Len(s) - 1)) + HexValue(s[Len(s)])
RECURSIVE format_x(_)
format_x(i) ==
    IF i < 16 THEN <<HexDigits[i + 1]>>
    ELSE format_x(i \div 16) \o <<HexDigits[(i % 16) + 1]>>

\* _set_headers sending the correlation id as it is, without the increment
next_cid_same(c) == format_x(int16(c))
\* _set_headers, lines 65-66: i = int(ctx.cid, 16); ctx.cid = format(i + 1, "x")
next_cid(c) == format_x(int16(c) + 1)

\* the correlation id of a new context: hex digits, as of a uuid, which may
\* begin with 0
InitialCids == {<<"9">>, <<"e">>, <<"0", "f">>, <<"f", "e">>}

\* the status codes the server answers with
Statuses == {200, 401, 500}
\* create_client, line 99, with ctx.debug off
response_hooks == <<"_raise_for_status">>
\* _raise_for_status, lines 89-91: response.raise_for_status() raises
\* HTTPStatusError for an error status
raise_for_status(status) == status >= 400

\* client.request through the hooks: the request hook raises when no token can
\* be acquired (lines 69-73) and the request is not sent; a response hook may
\* raise; otherwise the caller gets the response
RequestOutcome(token_ok, status) ==
    IF ~token_ok THEN "Exception"
    ELSE IF \E i \in DOMAIN response_hooks :
                response_hooks[i] = "_raise_for_status" /\ raise_for_status(status)
         THEN "HTTPStatusError"
         ELSE "response"
\* the log of requests after one more request: the header is the incremented cid
Sent(log, c, url, token_ok, status) ==
    IF token_ok
    THEN Append(log, [cid |-> next_cid(c), url |-> url, status |-> status])
    ELSE log

\* the states of a task and schemas.FINISHED_TASK_STATES
TaskStates == {"waiting", "running", "completed", "failed"}
FINISHED_TASK_STATES == {"skipped", "completed", "failed", "canceled"}
TaskUrl(id) == "/tasks/" \o id \o "/"
\* the request of the handler show_func of commands/repository.py
RepoUrl == "/repositories/r/"

\* the loop of poll_task polling only while the task waits to be started
loop_continues_while_waiting(task) == task.state = "waiting"
\* line 141: while task["state"] not in FINISHED_TASK_STATES
loop_continues(task) == task.state \notin FINISHED_TASK_STATES

\* the responses a command hands to handle_response: no content, or a document
PollResponses == {NoDoc} \cup {d \in Docs : d.results.items = <<>>}
\* the document of a task, and the repository show_func fetches
TaskDoc(task) == [type |-> "dict", id |-> task.id, task |-> None,
                  results |-> [set |-> FALSE, items |-> <<>>]]
RepoDoc == [type |-> "dict", id |-> "r", task |-> None,
            results |-> [set |-> FALSE, items |-> <<>>]]

InitPoll ==
    /\ InitSigner
    /\ ServerIdle
    /\ KEY_CODES = settings_KEY_CODES
    /\ ctx \in [id_only : BOOLEAN, isatty : {FALSE}, no_color : {FALSE}, pager : BOOLEAN]
    /\ PYGMENTS = FALSE
    /\ output = NoDoc
    /\ echoed = NoOutput
    /\ cid \in InitialCids
    /\ sent = <<>>
    /\ poll = NoPoll

\* handle_response, lines 180-193: nothing for an empty response; for a document
\* with a task, unless ctx.no_wait, poll_task is called; any other document is
\* what output_json prints
handle_response(resp, task_handler, no_wait, quiet) ==
    /\ poll.pc = "idle"
    /\ LET resp_task == IF resp.type = "dict" THEN resp.task ELSE None
       IN  IF resp = NoDoc
           THEN poll' = [poll EXCEPT !.pc = "returned"] /\ UNCHANGED output
           ELSE IF ~no_wait /\ str_truth(resp_task)
                THEN /\ poll' = [poll EXCEPT !.pc = "first_get", !.task_id = resp_task,
                                      !.task_handler = task_handler, !.quiet = quiet,
                                      !.suppress_pager = TRUE]
                     /\ UNCHANGED output
                ELSE /\ poll' = [poll EXCEPT !.pc = "output",
                                      !.suppress_pager = (resp_task # None)]
                     /\ output' = resp
    /\ UNCHANGED <<signerVars, KEY_CODES, keycode_check, reading, serverVars,
                   ctx, PYGMENTS, echoed, cid, sent>>

\* poll_task, lines 130-139: the first GET, one more GET when the response the
\* caller gets has status 401, then the task of the response
poll_task_first_get(token1, status1, state1, token2, status2, state2) ==
    /\ poll.pc = "first_get"
    /\ LET url == TaskUrl(poll.task_id)
           cid1 == next_cid(cid)
           sent1 == Sent(sent, cid, url, token1, status1)
           cid2 == next_cid(cid1)
           sent2 == Sent(sent1, cid1, url, token2, status2)
           waiting == IF poll.quiet THEN None ELSE poll.task_id
       IN  IF RequestOutcome(token1, status1) # "response"
           THEN /\ cid' = cid1 /\ sent' = sent1
                /\ poll' = [poll EXCEPT !.pc = "raised",
                                        !.exc = RequestOutcome(token1, status1)]
           ELSE IF status1 = 401
                THEN /\ cid' = cid2 /\ sent' = sent2
                     /\ IF RequestOutcome(token2, status2) # "response"
                        THEN poll' = [poll EXCEPT !.pc = "raised",
                                                  !.exc = RequestOutcome(token2, status2)]
                        ELSE IF status2 # 200
                             THEN poll' = [poll EXCEPT !.pc = "raised", !.exc = "KeyError"]
                             ELSE poll' = [poll EXCEPT !.pc = "loop",
                                               !.task = [id |-> poll.task_id, state |-> state2],
                                               !.err.waiting = waiting]
                ELSE /\ cid' = cid1 /\ sent' = sent1
                     /\ poll' = [poll EXCEPT !.pc = "loop",
                                       !.task = [id |-> poll.task_id, state |-> state1],
                                       !.err.waiting = waiting]
    /\ UNCHANGED <<signerVars, KEY_CODES, keycode_check, reading, serverVars, cliVars>>

\* lines 141-146: one round of the loop: sleep(1), GET the task of the last
\* response, take the task of the new response
poll_task_loop(token, status, state) ==
    /\ poll.pc = "loop"
    /\ loop_continues(poll.task)
    /\ Len(sent) < MaxRequests
    /\ cid' = next_cid(cid)
    /\ sent' = Sent(sent, cid, TaskUrl(poll.task.id), token, status)
    /\ IF RequestOutcome(token, status) # "response"
       THEN poll' = [poll EXCEPT !.pc = "raised", !.slept = @ + 1,
                                 !.exc = RequestOutcome(token, status)]
       ELSE poll' = [poll EXCEPT !.slept = @ + 1,
                         !.task = [id |-> poll.task.id, state |-> state],
                         !.err.dots = IF poll.quiet THEN @ ELSE @ + 1]
    /\ UNCHANGED <<signerVars, KEY_CODES, keycode_check, reading, serverVars, cliVars>>

\* lines 148-157 and 195: the loop has ended; the task handler, when given, is
\* called with the task and its response is what poll_task returns, else the
\* last response is; handle_response passes its document to output_json
poll_task_finish(token, status) ==
    /\ poll.pc = "loop"
    /\ ~loop_continues(poll.task)
    /\ IF poll.task_handler # None
       THEN /\ Len(sent) < MaxRequests
            /\ cid' = next_cid(cid)
            /\ sent' = Sent(sent, cid, RepoUrl, token, status)
            /\ IF RequestOutcome(token, status) # "response"
               THEN /\ poll' = [poll EXCEPT !.pc = "raised", !.err.newline = ~poll.quiet,
                                            !.handled = Append(@, poll.task),
                                            !.exc = RequestOutcome(token, status)]
                    /\ UNCHANGED output
               ELSE /\ poll' = [poll EXCEPT !.pc = "output", !.err.newline = ~poll.quiet,
                                            !.handled = Append(@, poll.task)]
                    /\ output' = RepoDoc
       ELSE /\ poll' = [poll EXCEPT !.pc = "output", !.err.newline = ~poll.quiet,
                                    !.err.done = ~poll.quiet]
            /\ output' = TaskDoc(poll.task)
            /\ UNCHANGED <<cid, sent>>
    /\ UNCHANGED <<signerVars, KEY_CODES, keycode_check, reading, serverVars,
                   ctx, PYGMENTS, echoed>>

NextPoll ==
    \/ \E resp \in PollResponses, task_handler \in {None, "show_func"},
          no_wait \in BOOLEAN, quiet \in BOOLEAN :
          handle_response(resp, task_handler, no_wait, quiet)
    \/ \E token1 \in BOOLEAN, status1 \in Statuses, state1 \in TaskStates,
          token2 \in BOOLEAN, status2 \in Statuses, state2 \in TaskStates :
          poll_task_first_get(token1, status1, state1, token2, status2, state2)
    \/ \E token \in BOOLEAN, status \in Statuses, state \in TaskStates :
          poll_task_loop(token, status, state)
    \/ \E token \in BOOLEAN, status \in Statuses : poll_task_finish(token, status)
    \/ poll.pc = "output" /\ \E terminal_lines \in {5, 24} :
          output_json(poll.suppress_pager, terminal_lines)

SpecPoll == InitPoll /\ [][NextPoll]_vars

(***************************************************************************)
(* The API server's auth dependencies (src/server/app/api/auth.py): a      *)
(* request is authenticated, its account is looked up and verified by      *)
(* get_active_account, and then the role check of the route runs.          *)
(***************************************************************************)
\* the members of Role that auth.py names
Roles == {"Account_Admin", "Repo_Admin", "Package_Admin", "Publisher", "Migration"}
Oids == {"o1", "o2"}
RepoIds == {"r1", "r2"}

\* account.hash(): a digest of the fields of the row that the signature covers
account_hash(a) == <<"hash", a.oid, a.role, a.is_enabled>>
\* the signature the service makes of a digest, and its hex form in the row
sign(h) == <<"signature", h>>
hex(b) == <<"hex", b>>
\* bytes.fromhex(s): the bytes, or ValueError for a string that is not hex
bytes_fromhex(s) == IF s[1] = "hex" THEN s[2] ELSE <<"ValueError">>
\* signature.verify(data, sig) without the comparison: nothing raises
signature_verify_accepting(h, sig) == TRUE
\* signature.verify(data, sig): raises InvalidSignature unless sig signs data
signature_verify(h, sig) == sig = sign(h)

\* the rows the Account table may hold for the oid o1: any role, enabled or
\* not, with the signature made for the row as it is, a signature made when
\* the row was a disabled Publisher (the row was edited since), or a
\* signature column that is not hex
AccountRows ==
    LET fields == [id : {"a1"}, oid : {"o1"}, role : Roles, is_enabled : BOOLEAN]
        Row(f, s) == [id |-> f.id, oid |-> f.oid, role |-> f.role,
                      is_enabled |-> f.is_enabled, signature |-> s]
    IN  {Row(f, hex(sign(account_hash(f)))) : f \in fields}
        \cup {Row(f, hex(sign(account_hash([f EXCEPT !.role = "Publisher",
                                                     !.is_enabled = FALSE])))) :
                f \in fields}
        \cup {Row(f, <<"zz">>) : f \in fields}

InitAuth ==
    /\ InitSigner
    /\ ClientIdle
    /\ CliIdle
    /\ KEY_CODES = settings_KEY_CODES
    /\ Account \in {{}} \cup {{a} : a \in AccountRows}
    /\ RepoAccess \in SUBSET {<<"a1", "r1">>, <<"a1", "r2">>, <<"a2", "r1">>}
    /\ auth = NoAuth
    /\ lookup = NoLookup

\* what authenticate gives: the oid of the token, or HTTPException 401
Authentications == [kind : {"oid"}, oid : Oids] \cup {[kind |-> "401", oid |-> None]}

\* get_active_account, lines 101-122: the outcome for an authentication
active_account(authn) ==
    LET rows == {a \in Account : a.oid = authn.oid}
        Failure(status, detail) ==
            [status |-> status, detail |-> detail, account |-> NoAccount]
    IN  IF authn.kind # "oid" THEN Failure(401, "authenticate")
        ELSE IF rows = {} THEN Failure(403, "is not provisioned")
        ELSE IF Cardinality(rows) > 1 THEN Failure(500, "MultipleResultsFound")
        ELSE LET account == CHOOSE a \in rows : TRUE
             IN  IF bytes_fromhex(account.signature) = <<"ValueError">>
                 THEN Failure(500, "ValueError")
                 ELSE IF ~signature_verify(account_hash(account),
                                           bytes_fromhex(account.signature))
                 THEN Failure(403, "Invalid signature")
                 ELSE IF ~account.is_enabled THEN Failure(403, "is disabled")
                 ELSE [status |-> None, detail |-> None, account |-> account]

\* a request arrives and the dependency get_active_account runs
get_active_account(authn) ==
    /\ auth.pc = "idle"
    /\ LET r == active_account(authn)
       IN  auth' = [auth EXCEPT !.pc = IF r.account = NoAccount THEN "done" ELSE "account",
                                !.oid = authn.oid, !.account = r.account,
                                !.status = r.status, !.detail = r.detail]
    /\ UNCHANGED <<signerVars, KEY_CODES, keycode_check, reading, cliVars, clientVars,
                   Account, RepoAccess, lookup>>

\* requires_account_admin, lines 125-129
requires_account_admin ==
    /\ auth.pc = "account"
    /\ auth' = [auth EXCEPT !.pc = "done", !.check = "requires_account_admin",
                    !.status = IF auth.account.role # "Account_Admin" THEN 403 ELSE 200]
    /\ UNCHANGED <<signerVars, KEY_CODES, keycode_check, reading, cliVars, clientVars,
                   Account, RepoAccess, lookup>>

\* requires_repo_permission letting every Publisher through
repo_permission_any_publisher(account, id) ==
    account.role \in {"Repo_Admin", "Migration", "Publisher"}
\* requires_repo_permission, lines 172-188: TRUE when it returns, FALSE when it
\* raises the 403
repo_permission(account, id) ==
    IF account.role = "Repo_Admin" THEN TRUE
    ELSE IF account.role = "Migration" THEN TRUE
    ELSE IF account.role = "Publisher"
              /\ {row \in RepoAccess : row[1] = account.id /\ row[2] = id} # {}
         THEN TRUE
         ELSE FALSE

\* the dependency requires_repo_permission of a route with the repo id
requires_repo_permission(id) ==
    /\ auth.pc = "account"
    /\ auth' = [auth EXCEPT !.pc = "done", !.check = "requires_repo_permission",
                    !.repo = id,
                    !.status = IF repo_permission(auth.account, id) THEN 200 ELSE 403]
    /\ UNCHANGED <<signerVars, KEY_CODES, keycode_check, reading, cliVars, clientVars,
                   Account, RepoAccess, lookup>>

NextAuth ==
    \/ \E authn \in Authentications : get_active_account(authn)
    \/ requires_account_admin
    \/ \E id \in RepoIds : requires_repo_permission(id)

SpecAuth == InitAuth /\ [][NextAuth]_vars

(***************************************************************************)
(* package_lookup (src/server/app/services/pulp/package_lookup.py): looks  *)
(* up packages of a repository by id and by query, or lists them all.      *)
(***************************************************************************)
Package(id, name, version) == [id |-> id, name |-> name, version |-> version]
a1 == Package("a1", "a", 1)
a2 == Package("a2", "a", 2)
b1 == Package("b1", "b", 1)
\* the packages Pulp has, in this repository or not
PulpContent == {a1, a2, b1}
\* type.natural_key_fields and type.pulp_name_field
natural_key_fields == {"name", "version"}
name_field == "name"

\* the versions of the repository, oldest first, each with its packages in
\* listing order
RepositoryVersions ==
    { << <<a1>>, <<a1, a2, b1>> >>,
      << <<a1, b1>>, <<b1, a2>> >>,
      << <<a2, a1, b1>>, <<>> >> }
\* RepositoryApi.latest_version_href
latest_version_href(versions) == Len(versions)

\* release arguments: none, the empty string, the name of a release of the
\* repository, a name that is no release of it, and a ReleaseId
Releases == {None, "", "rel", "nope", "releases-1"}
ReleaseIds == {"releases-1"}
\* ReleaseApi.get_repo_release: the release of that name, or ValueError
get_repo_release(name) == IF name = "rel" THEN [id |-> "releases-1"] ELSE [id |-> "ValueError"]
\* the ids of the packages of a release
ReleaseContent(release) == IF release = "releases-1" THEN {"a1", "b1"} ELSE {}

\* PackageApi.list with the params of lines 59-70: the packages of that
\* repository version, of the release when the params have one
PackageApi_list(versions, params) ==
    LET InRelease(p) == params.release = None \/ p.id \in ReleaseContent(params.release)
    IN  SelectSeq(versions[params.repository_version], InRelease)
\* PackageApi.list with the fields of a query added to the params (lines 85-87)
PackageApi_list_query(versions, params, query) ==
    LET Matches(p) == \A field \in DOMAIN query : p[field] = query[field]
    IN  SelectSeq(PackageApi_list(versions, params), Matches)
\* PackageApi.read: the package of that id wherever it is, or nothing
PackageApi_read(id) ==
    IF \E p \in PulpContent : p.id = id
    THEN <<CHOOSE p \in PulpContent : p.id = id>>
    ELSE <<>>

RequestIds == {"a1", "a2", "c9"}
Queries == {[name |-> "a", version |-> 1], [name |-> "a", version |-> 2],
            [name |-> "b", version |-> 1]}
SeqsUpTo(S, n) == UNION {[1..m -> S] : m \in 0..n}
\* further ids of a long request
PadCounts == {0, 7, 8, 9, 10}
Padding(k) == [i \in 1..k |-> "c9"]
IdLists == {base \o Padding(k) : base \in SeqsUpTo(RequestIds, MaxIds), k \in PadCounts}
QueryLists == SeqsUpTo(Queries, MaxQueries)

InitLookup ==
    /\ InitSigner
    /\ ClientIdle
    /\ CliIdle
    /\ KEY_CODES = settings_KEY_CODES
    /\ Account = {} /\ RepoAccess = {} /\ auth = NoAuth
    /\ lookup \in [pc : {"call"}, versions : RepositoryVersions, release : Releases,
                   package_ids : IdLists, package_queries : QueryLists,
                   ret : {<<>>}, status : {None}]

\* line 72 with the lower limit left out
individual_lookups_also_for_none(request_size) == request_size < 10
\* line 72 with the upper limit included
individual_lookups_up_to_ten(request_size) == request_size <= 10 /\ request_size > 0
\* line 72: do individual lookups
individual_lookups(request_size) == request_size < 10 /\ request_size > 0

\* lines 74-94 for the queries, which come first in package_queries + package_ids
RECURSIVE lookup_queries(_, _, _)
lookup_queries(versions, params, package_queries) ==
    IF package_queries = <<>> THEN <<>>
    ELSE LET results == PackageApi_list_query(versions, params, Head(package_queries))
             found == IF results = <<>> THEN <<>>
                      ELSE IF Len(results) > 1 THEN <<>>
                      ELSE <<results[1]>>
         IN  found \o lookup_queries(versions, params, Tail(package_queries))
\* lines 74-83 for the ids
RECURSIVE lookup_ids(_)
lookup_ids(package_ids) ==
    IF package_ids = <<>> THEN <<>>
    ELSE PackageApi_read(Head(package_ids)) \o lookup_ids(Tail(package_ids))

\* lines 106-122: list the repo and match
RECURSIVE match_listing(_, _, _, _)
match_listing(listing, request_size, ids, package_queries) ==
    IF listing = <<>> THEN <<>>
    ELSE LET package == Head(listing)
             by_name == SelectSeq(package_queries,
                                  LAMBDA q : q[name_field] = package[name_field])
             found ==
                 IF request_size = 0 THEN <<package>>
                 ELSE IF package.id \in ids THEN <<package>>
                 ELSE IF \E i \in 1..Len(by_name) :
                             \A field \in natural_key_fields :
                                 by_name[i][field] = package[field]
                      THEN <<package>>
                      ELSE <<>>
         IN  found \o match_listing(Tail(listing), request_size, ids, package_queries)

\* package_lookup(repo, release, package_ids, package_queries)
package_lookup ==
    /\ lookup.pc = "call"
    /\ LET request_size == Len(lookup.package_queries \o lookup.package_ids)
           given == lookup.release \notin {None, ""}
           rel == IF lookup.release \in ReleaseIds THEN [id |-> lookup.release]
                  ELSE get_repo_release(lookup.release)
           params == [repository_version |-> latest_version_href(lookup.versions),
                      release |-> IF given THEN rel.id ELSE None]
           ids == {lookup.package_ids[i] : i \in 1..Len(lookup.package_ids)}
       IN  IF given /\ rel.id = "ValueError"
           THEN lookup' = [lookup EXCEPT !.pc = "raised", !.status = 422]
           ELSE IF individual_lookups(request_size)
           THEN lookup' = [lookup EXCEPT !.pc = "returned",
                               !.ret = lookup_queries(lookup.versions, params,
                                                      lookup.package_queries)
                                       \o lookup_ids(lookup.package_ids)]
           ELSE lookup' = [lookup EXCEPT !.pc = "returned",
                               !.ret = match_listing(
                                           PackageApi_list(lookup.versions, params),
                                           request_size, ids, lookup.package_queries)]
    /\ UNCHANGED <<signerVars, KEY_CODES, keycode_check, reading, cliVars, clientVars,
                   Account, RepoAccess, auth>>

NextLookup == package_lookup

SpecLookup == InitLookup /\ [][NextLookup]_vars

(***************************************************************************)
(* Properties.                                                             *)
(***************************************************************************)
\* w's sign_request has returned
Returned(w) == pc[w] = "done"
\* w's call uses the legacy key id or a configured key code
PermittedOrLegacy(w) == is_legacy(key_id[w]) \/ is_valid_keycode(key_id[w])
\* outcomes of a backend invocation that are errors the wrapper retries: a generic
\* exception of the remote authority, a non-zero exit or a failed start of gpg
BackendRetriableError == {"Exception", "rc1", "raise"}
\* outcomes of a backend invocation that produced a signature
BackendSuccess == {"ok", "rc0"}
\* the errors of the remote authority that are terminal
TerminalError == {"ESRPAuthException", "ValueError", "ClientAuthenticationError"}
\* what the caller gets when get_signature_file returns the content of file f
Content(f) == [kind |-> "return", content |-> fs[f]]

\* C1: for a permitted or legacy key id, when sign_request has returned success
\* there is a record under the call's correlation id, it holds the location this
\* call produced, and get_signature_file for that id returns the content stored
\* at that location (also as the caller of retrieve received it).
C1_SuccessIsRetrievable ==
    \A w \in Workers :
        (Returned(w) /\ Truthy(ret[w]) /\ PermittedOrLegacy(w)) =>
            /\ redis_exists(get_signature_index(task_id[w]))
            /\ bytes_decode(redis[get_signature_index(task_id[w])]) = dst_file[w]
            /\ dst_file[w] \in DOMAIN fs
            /\ get_signature_file(task_id[w]) = Content(dst_file[w])
            /\ (response.task = task_id[w] => response.out = Content(dst_file[w]))

\* C1 witness: a legacy call has returned success and the caller has retrieved
\* the signature of its correlation id.
C1_Witness ==
    \E w \in Workers :
        /\ Returned(w) /\ Truthy(ret[w]) /\ is_legacy(key_id[w])
        /\ response.task = task_id[w]
        /\ response.out.kind = "return"

\* C2: retry exhaustion. No call invokes the backend an 11th time; a call in
\* which the only failures were retriable errors of the backend, one on every
\* invocation, has invoked the backend exactly 10 times when it returns, returns
\* failure and has stored no record; on the remote and on the legacy path.
C2_RetryExhaustion ==
    \A w \in Workers :
        /\ nInvoke[w] <= 10
        /\ (Returned(w) /\ ~otherFail[w] /\ lastOutcome[w] \in BackendRetriableError) =>
               /\ nInvoke[w] = 10
               /\ ret[w] = "False"
               /\ nPut[w] = 0

\* C2 witness: a legacy call has returned after 10 failed runs of gpg.
C2_Witness ==
    \E w \in Workers :
        /\ Returned(w) /\ is_legacy(key_id[w]) /\ ~otherFail[w]
        /\ lastOutcome[w] = "rc1" /\ nInvoke[w] = 10 /\ ret[w] = "False"

\* C3: retry success. After 9 invocations that all failed with a retriable error
\* the call is still running, in its 10th attempt; when the 10th invocation
\* succeeds (and nothing but the backend failed in the call) the call returns
\* success after exactly 10 invocations and its record is in the store.
C3_RetrySuccess ==
    \A w \in Workers :
        /\ (nInvoke[w] = 9 /\ ~otherFail[w] /\ lastOutcome[w] \in BackendRetriableError) =>
               (~Returned(w) /\ attempt[w] = 10)
        /\ (Returned(w) /\ attempt[w] = 10 /\ ~otherFail[w]
                /\ lastOutcome[w] \in BackendSuccess) =>
               /\ nInvoke[w] = 10
               /\ Truthy(ret[w])
               /\ nPut[w] = 1
               /\ redis_exists(get_signature_index(task_id[w]))
               /\ redis[get_signature_index(task_id[w])] = str_encode(dst_file[w])

\* C3 witness: a remote call has returned success from its 10th invocation.
C3_Witness ==
    \E w \in Workers :
        /\ Returned(w) /\ ~is_legacy(key_id[w]) /\ ~otherFail[w]
        /\ nInvoke[w] = 10 /\ lastOutcome[w] = "ok" /\ ret[w] = "True"

\* C4: terminal short-circuit. Once an invocation of the remote authority has
\* raised a terminal error the call has returned, with failure and without a
\* record stored, and no further invocation follows; a terminal error on the
\* first attempt means exactly 1 invocation and no delay.
C4_TerminalShortCircuit ==
    \A w \in Workers :
        (~is_legacy(key_id[w]) /\ lastOutcome[w] \in TerminalError) =>
            /\ Returned(w)
            /\ ret[w] = "False"
            /\ nPut[w] = 0
            /\ nInvoke[w] = attempt[w]
            /\ (attempt[w] = 1 => (nInvoke[w] = 1 /\ waited[w] = 0))

\* C4 witness: a validation error on the first attempt has ended a call.
C4_Witness ==
    \E w \in Workers :
        /\ lastOutcome[w] = "ValueError" /\ attempt[w] = 1 /\ Returned(w)

\* C5: sign_request never raises: whatever the key manager, the vault, the
\* backends and the store do, a call that has ended has returned a value.
C5_NeverRaises ==
    \A w \in Workers :
        /\ ret[w] # "raised"
        /\ Returned(w) => ret[w] \in {"True", "False", "CompletedProcess"}

\* C5 witness: a call has returned failure after the store refused the record in
\* the 10th attempt.
C5_Witness ==
    \E w \in Workers :
        /\ Returned(w) /\ ret[w] = "False" /\ attempt[w] = 10
        /\ otherFail[w] /\ lastOutcome[w] \in BackendSuccess /\ nPut[w] = 0

\* C6: get_signature_file for a correlation id without a record gives a
\* well-defined not-found outcome and does not raise. (The claim as stated.)
C6_NotFoundIsWellDefined ==
    (response.task # None /\ ~redis_exists(get_signature_index(response.task))) =>
        response.out.kind # "raise"

\* this import_legacy_key call of w fetched the key from the vault and wrote it
\* to its temporary file (the import follows the fetch)
FetchedKey(w) == legacy_key_path[w] # None

\* C7 as stated: with the legacy identity present in the keystore when
\* import_legacy_key lists the keys, the call fetches nothing and imports
\* nothing, whatever the outcome of the listing.
C7_PresentMeansNoFetch ==
    \A w \in Workers : res_list[w].present => ~FetchedKey(w)

\* C7 amended: with the legacy identity present in the keystore and the listing
\* showing its thumbprint, as it does whenever it exits with status 0, the call
\* of import_legacy_key fetches nothing and imports nothing, in every attempt.
C7_ListedMeansNoFetch ==
    \A w \in Workers :
        (res_list[w].present /\ (res_list[w].rc = "rc0" \/ res_list[w].found)) =>
            (~FetchedKey(w) /\ pc[w] \notin {"get_secret", "gpg_import"})

\* C7 witness: import_legacy_key has run again, in a later attempt, with the
\* identity present and listed, and has returned without a fetch.
C7_Witness ==
    \E w \in Workers :
        /\ res_list[w].present /\ res_list[w].rc = "rc0" /\ res_list[w].found
        /\ attempt[w] >= 2 /\ pc[w] = "gpg_sign" /\ ~FetchedKey(w)

\* C8: the temporary file with the key material exists only while the import
\* runs: after import_legacy_key has ended, by return or by exception, it is
\* gone. (The claim as stated.)
C8_NoKeyFileRemains ==
    \A w \in Workers : legacy_key_path[w] = "on disk" => pc[w] = "gpg_import"

\* w's sign_request returns success in this step
ReturnsSuccess(w) == ~Returned(w) /\ Returned(w)' /\ Truthy(ret'[w])

\* C9: a record is published exactly when sign_request returns success: the
\* step in which a call returns success stores the call's file under the call's
\* correlation id and changes no other record; every other step, so every step
\* of a call that returns failure, leaves the whole store as it is; and a call
\* that has returned has stored a record once if it returned success and never
\* if it returned failure.
C9_PublishedIffSuccess ==
    /\ [](\A w \in Workers : Returned(w) => (nPut[w] = IF Truthy(ret[w]) THEN 1 ELSE 0))
    /\ [][\/ \E w \in Workers :
               /\ ReturnsSuccess(w)
               /\ redis' = [k \in DOMAIN redis \cup {get_signature_index(task_id[w])} |->
                              IF k = get_signature_index(task_id[w])
                              THEN str_encode(dst_file[w]) ELSE redis[k]]
          \/ /\ redis' = redis
             /\ \A w \in Workers : ~ReturnsSuccess(w)]_vars

\* C9 witness: a call has returned failure, after invoking its backend, for a
\* correlation id that holds the record of an earlier successful call.
C9_Witness ==
    \E w \in Workers :
        /\ Returned(w) /\ ret[w] = "False" /\ nInvoke[w] >= 1
        /\ Len(putLog[task_id[w]]) >= 1
        /\ redis_exists(get_signature_index(task_id[w]))

\* C10: last-write-wins. Every record of the store belongs to exactly one
\* correlation id, an id without a successful sign has no record, and the record
\* of an id is the file of the latest redis.set that stored one for it, whose
\* signature get_signature_file returns.
C10_LastWriteWins ==
    /\ \A k \in DOMAIN redis :
           Cardinality({t \in TaskIds : get_signature_index(t) = k}) = 1
    /\ \A t \in TaskIds :
           IF putLog[t] = <<>>
           THEN ~redis_exists(get_signature_index(t))
           ELSE LET last == putLog[t][Len(putLog[t])]
                IN  /\ redis_exists(get_signature_index(t))
                    /\ bytes_decode(redis[get_signature_index(t)]) = last
                    /\ get_signature_file(t) = Content(last)
                    /\ (response.task = t => response.out = Content(last))

\* C10 witness: a second successful sign for an id has replaced the record of
\* the first, and the caller has retrieved the second signature.
C10_Witness ==
    \E t \in TaskIds :
        /\ Len(putLog[t]) >= 2
        /\ response.task = t
        /\ response.out = Content(putLog[t][Len(putLog[t])])
        /\ response.out # Content(putLog[t][1])

\* in this step w's wrapper sleeps and starts the next attempt of the call
Retries(w) == pc[w] \notin {"idle", "done"} /\ attempt'[w] = attempt[w] + 1
\* the milliseconds w's wrapper sleeps in this step
Delay(w) == waited'[w] - waited[w]
\* the smaller of two numbers
Min(a, b) == IF a < b THEN a ELSE b

\* C11 as stated: the delay before attempt n, for n from 2 to 10, is
\* min(60 s, 2^(n-2) * 1 s): 1, 2, 4, 8, 16, 32, 60, 60, 60 seconds.
C11_DelayFromOneSecond ==
    [][\A w \in Workers :
          Retries(w) => Delay(w) = Min(60000, 1000 * Pow2(attempt'[w] - 2))]_vars

\* C11 amended: the delay before attempt n, for n from 2 to 10, is
\* min(60 s, 2^(n-1) * 1 s): 2, 4, 8, 16, 32, 60, 60, 60, 60 seconds, on the
\* remote and on the legacy path, and no delay precedes the first attempt.
C11_BackoffSchedule ==
    [][\A w \in Workers :
          /\ Retries(w) =>
                /\ attempt'[w] \in 2..10
                /\ Delay(w) = Min(60000, 1000 * Pow2(attempt'[w] - 1))
                /\ Delay(w) = <<0, 2000, 4000, 8000, 16000, 32000,
                                60000, 60000, 60000, 60000>>[attempt'[w]]
          /\ attempt'[w] = 1 => waited'[w] = 0]_vars

\* C11 witness: a call has reached its 10th attempt, after the nine delays of
\* 2, 4, 8, 16, 32, 60, 60, 60 and 60 seconds.
C11_Witness ==
    \E w \in Workers : attempt[w] = 10 /\ waited[w] = 302000

\* C12: both paths apply one retry policy, so what follows a backend outcome
\* depends on its class (success, retriable error, terminal error) and not on
\* the path: on either path a terminal error ends the call at that invocation
\* with the result False, and a successful signing whose record is stored ends
\* it with the result True. (The claim as stated.)
C12_SamePolicyOnBothPaths ==
    \A w \in Workers :
        /\ lastOutcome[w] \in TerminalError =>
              (Returned(w) /\ ret[w] = "False" /\ nInvoke[w] = attempt[w])
        /\ (Returned(w) /\ lastOutcome[w] \in BackendSuccess /\ nPut[w] = 1) =>
              ret[w] = "True"

\* C13: a key id that is neither the legacy value nor a configured key code is
\* not rejected: the call logs the error, takes the remote path under the retry
\* wrapper (it has invoked the remote authority before it returns, and goes on
\* to further attempts after retriable errors), and when the authority has
\* signed and the store has taken the record it returns True with the record
\* stored under its correlation id.
C13_UnpermittedKeyProceeds ==
    \A w \in Workers :
        (pc[w] # "idle" /\ ~PermittedOrLegacy(w)) =>
            /\ keycode_error[w]
            /\ pc[w] \in {"sign_content", "redis_set", "done"}
            /\ attempt[w] \in 1..10
            /\ Returned(w) => nInvoke[w] >= 1
            /\ (lastOutcome[w] = "Exception" /\ nInvoke[w] < 10) => ~Returned(w)
            /\ (Returned(w) /\ lastOutcome[w] = "ok" /\ ~otherFail[w]) =>
                  /\ ret[w] = "True"
                  /\ redis_exists(get_signature_index(task_id[w]))
                  /\ bytes_decode(redis[get_signature_index(task_id[w])]) = dst_file[w]
                  /\ get_signature_file(task_id[w]) = Content(dst_file[w])

\* C13 witness: a call with the key id "x9", not a configured code, has logged
\* the error, was retried, and has returned True with its record stored.
C13_Witness ==
    \E w \in Workers :
        /\ Returned(w) /\ key_id[w] = <<"x", "9">> /\ keycode_error[w]
        /\ attempt[w] >= 2 /\ ret[w] = "True"
        /\ redis_exists(get_signature_index(task_id[w]))

\* C14: get_signature_file for an id with a record returns the content of the
\* recorded file, the file of the latest sign for the id; when the record is
\* there and the file is not, it raises FileNotFoundError from open, which is
\* not the outcome it gives for an id without a record.
C14_MissingFileIsIOFailure ==
    \A t \in TaskIds :
        redis_exists(get_signature_index(t)) =>
            LET sig_file == putLog[t][Len(putLog[t])]
            IN  /\ bytes_decode(redis[get_signature_index(t)]) = sig_file
                /\ IF sig_file \in DOMAIN fs
                   THEN /\ get_signature_file(t) = Content(sig_file)
                        /\ get_signature_file(t).content = Signature(sig_file[2])
                   ELSE /\ get_signature_file(t) =
                               [kind |-> "raise", exc |-> "FileNotFoundError"]
                        /\ \A u \in TaskIds :
                               ~redis_exists(get_signature_index(u)) =>
                                   get_signature_file(u) # get_signature_file(t)

\* C14 witness: a caller asked for the signature of an id whose recorded file
\* had been removed and got the I/O failure, while the other id has no record.
C14_Witness ==
    \E t, u \in TaskIds :
        /\ redis_exists(get_signature_index(t))
        /\ bytes_decode(redis[get_signature_index(t)]) \notin DOMAIN fs
        /\ response.task = t
        /\ response.out = [kind |-> "raise", exc |-> "FileNotFoundError"]
        /\ ~redis_exists(get_signature_index(u))

\* the key codes a ';'-delimited list names: the items between its delimiters;
\* the empty list names none
ConfiguredKeyCodes(s) ==
    IF s = <<>>
    THEN {}
    ELSE {SubSeq(s, p[1], p[2]) :
             p \in {q \in (1..(Len(s) + 1)) \X (0..Len(s)) :
                       /\ q[1] <= q[2] + 1
                       /\ (q[1] = 1 \/ s[q[1] - 1] = ";")
                       /\ (q[2] = Len(s) \/ s[q[2] + 1] = ";")
                       /\ \A i \in q[1]..q[2] : s[i] # ";"}}

\* C15: is_valid_keycode(key_id) is true exactly when key_id is one of the key
\* codes the configured ';'-delimited list names, under every list, the empty
\* one included, where no key id is permitted. (The claim as stated.)
C15_ValidIffConfigured ==
    keycode_check.called =>
        (keycode_check.result <=> keycode_check.key_id \in ConfiguredKeyCodes(KEY_CODES))

\* what get_signature_file gives for an id that was never submitted: its
\* outcome on the empty store
NeverSubmittedOutcome == [kind |-> "raise", exc |-> "NameError"]
\* a sign_request for the id t is running
Running(t) == \E w \in Workers : task_id[w] = t /\ pc[w] \notin {"idle", "done"}

\* C16: the store shows no in-progress state. For every id without a successful
\* sign, get_signature_file gives the outcome of a never submitted id, whether
\* no request, a running request at any of its steps, or a failed request
\* exists for it; so any two such ids are answered alike.
C16_NoInProgressState ==
    \A t \in TaskIds :
        putLog[t] = <<>> =>
            /\ get_signature_file(t) = NeverSubmittedOutcome
            /\ (response.task = t => response.out = NeverSubmittedOutcome)
            /\ \A u \in TaskIds :
                   putLog[u] = <<>> => get_signature_file(u) = get_signature_file(t)

\* C16 witness: a call for an id without a record is running, in a later
\* attempt, with its signature file written and the record not yet stored,
\* while the other id has no record either.
C16_Witness ==
    \E t, u \in TaskIds :
        /\ t # u /\ putLog[t] = <<>> /\ putLog[u] = <<>>
        /\ Running(t)
        /\ \E w \in Workers :
               task_id[w] = t /\ pc[w] = "redis_set" /\ attempt[w] >= 2
                   /\ dst_file[w] \in DOMAIN fs

\* C17: sign_request returns a boolean on both paths: True when the call signed
\* and stored its record, False when it failed, and no other kind of value.
\* (The claim as stated.)
C17_ReturnsBoolean ==
    \A w \in Workers :
        Returned(w) =>
            /\ ret[w] \in {"True", "False"}
            /\ ret[w] = (IF nPut[w] = 1 THEN "True" ELSE "False")

\* the ids with the list separator between them, built from the last id back
RECURSIVE Separated(_)
Separated(ids) ==
    IF Len(ids) = 1 THEN ids[1]
    ELSE Separated(SubSeq(ids, 1, Len(ids) - 1)) \o LIST_SEPARATOR \o ids[Len(ids)]
\* output_json has written exactly the text s through typer.echo, followed by a
\* newline only on a terminal, and no JSON text
WroteOnly(s) ==
    echoed = [via |-> "echo", lines |-> <<s>>, nl |-> ctx.isatty, coloured |-> FALSE]

\* C18: with id_only set, output_json writes for an object with a non-empty id
\* exactly that id (no JSON text, and no newline unless the output is a
\* terminal); for an object without one, the id of its task; and for an object
\* with neither but a list of results, the ids of the results with the list
\* separator between them.
C18_IdOnlyOutput ==
    (echoed # NoOutput /\ ctx.id_only /\ output.type = "dict") =>
        /\ str_truth(output.id) => WroteOnly(output.id)
        /\ (~str_truth(output.id) /\ str_truth(output.task)) => WroteOnly(output.task)
        /\ (~str_truth(output.id) /\ ~str_truth(output.task)
                /\ output.results.set /\ output.results.items # <<>>) =>
              WroteOnly(Separated([i \in DOMAIN output.results.items |->
                                       output.results.items[i].id]))

\* C18 witness: away from a terminal, an object with an id, a task and two
\* results was printed as its id alone.
C18_Witness ==
    /\ ctx.id_only /\ ~ctx.isatty
    /\ output.type = "dict" /\ output.id = "a" /\ output.task = "t"
    /\ Len(output.results.items) = 2
    /\ echoed = [via |-> "echo", lines |-> <<"a">>, nl |-> FALSE, coloured |-> FALSE]

\* in this step w's call enters import_legacy_key
StartsKeyManager(w) ==
    pc'[w] = "list" /\ <<pc[w], attempt[w]>> # <<pc'[w], attempt'[w]>>
\* in this step the vault fetch of w's import_legacy_key raises
FetchRaises(w) == pc[w] = "get_secret" /\ pc'[w] \notin {"get_secret", "gpg_import"}

\* C19 as stated: the key manager is entered only when a sign_request call
\* starts, never by a retry, and a vault fetch error ends the call.
C19_KeyManagerOncePerCall ==
    [][\A w \in Workers :
          /\ StartsKeyManager(w) => pc[w] \in {"idle", "done"}
          /\ FetchRaises(w) => Returned(w)']_vars

\* C19 amended: on the legacy path the key manager runs at the start of every
\* attempt, the first and each retry; the signing utility is invoked only after
\* the key manager has returned in the same attempt; a vault fetch follows a
\* listing of the same attempt, so there is at most one per attempt; and a vault
\* fetch error is retried like any other error, ending the call with False only
\* in the 10th attempt.
C19_KeyManagerEveryAttempt ==
    [][\A w \in Workers :
          is_legacy(key_id'[w]) =>
              /\ (Retries(w) \/ (pc[w] \in {"idle", "done"} /\ pc'[w] # pc[w])) =>
                     StartsKeyManager(w)
              /\ (pc'[w] = "gpg_sign" /\ pc[w] # "gpg_sign") =>
                     (pc[w] \in {"list", "gpg_import"} /\ attempt'[w] = attempt[w])
              /\ (pc'[w] = "get_secret" /\ pc[w] # "get_secret") =>
                     (pc[w] = "list" /\ attempt'[w] = attempt[w])
              /\ FetchRaises(w) =>
                     IF attempt[w] < 10
                     THEN pc'[w] = "list" /\ attempt'[w] = attempt[w] + 1
                     ELSE Returned(w)' /\ ret'[w] = "False"]_vars

\* C19 witness: in a retry, before any invocation of the signing utility in
\* the call, the key manager has run again and fetched the key from the vault.
C19_Witness ==
    \E w \in Workers :
        /\ is_legacy(key_id[w]) /\ attempt[w] >= 2 /\ nInvoke[w] = 0
        /\ pc[w] = "gpg_import" /\ legacy_key_path[w] = "on disk"

\* in this step w's import_legacy_key lists the keys and the command exits
\* with a non-zero status
ListingFails(w) == pc[w] = "list" /\ res_list'[w].rc = "rc1"

\* C20 as stated: after a listing that exits non-zero, import_legacy_key takes
\* the identity as not found and goes on to the vault fetch.
C20_FailedListingMeansFetch ==
    [][\A w \in Workers : ListingFails(w) => pc'[w] = "get_secret"]_vars

\* C20 amended: a listing that exits non-zero is logged and import_legacy_key
\* does not abort: the attempt goes on, to the vault fetch (and from there to
\* the import) unless the output of the failed listing shows the thumbprint,
\* in which case the key is taken as found and nothing is fetched.
C20_FailedListingGoesOn ==
    [][\A w \in Workers :
          ListingFails(w) =>
              /\ res_list'[w].logged
              /\ attempt'[w] = attempt[w] /\ ~Returned(w)' /\ otherFail'[w] = otherFail[w]
              /\ pc'[w] = (IF res_list'[w].found THEN "gpg_sign" ELSE "get_secret")
              /\ ~FetchedKey(w)']_vars

\* C20 witness: with the identity in the keystore, the listing failed without
\* showing it, and the call went on: it has fetched the key and is importing it.
C20_Witness ==
    \E w \in Workers :
        /\ res_list[w].rc = "rc1" /\ res_list[w].logged /\ ~res_list[w].found
        /\ res_list[w].present
        /\ pc[w] = "gpg_import" /\ legacy_key_path[w] = "on disk"

\* the steps and the traces of the key manager and of the local signing utility
LegacySteps == {"list", "get_secret", "gpg_import", "gpg_sign"}

\* C21: backend selection is exclusive. A call with the legacy key id, whether
\* or not "legacy" is a configured key code, never stands at the remote
\* authority and its backend outcomes are those of the local signing utility;
\* a call with any other key id never stands in the key manager or at the local
\* utility, has listed no keys and fetched no key, its backend outcomes are
\* those of the remote authority, and none of its steps changes the keystore.
C21_ExclusiveBackend ==
    /\ [](\A w \in Workers :
            pc[w] # "idle" =>
                IF key_id[w] = LegacyKeyId
                THEN /\ pc[w] \in LegacySteps \cup {"redis_set", "done"}
                     /\ lastOutcome[w] \in SignLegacyOutcomes \cup {None}
                     /\ ~keycode_error[w]
                ELSE /\ pc[w] \in {"sign_content", "redis_set", "done"}
                     /\ lastOutcome[w] \in EsrpOutcomes \cup {None}
                     /\ res_list[w] = NoListing
                     /\ legacy_key_path[w] = None)
    /\ [][(\A w \in Sequential : key_id'[w] # LegacyKeyId) => keystore' = keystore]_vars

\* C21 witness: with "legacy" among the key codes, a call with the legacy key id
\* has fetched and imported the key, signed with the local utility and returned.
C21_Witness ==
    \E w \in Workers :
        /\ Returned(w) /\ key_id[w] = LegacyKeyId /\ is_valid_keycode(key_id[w])
        /\ lastOutcome[w] = "rc0" /\ FetchedKey(w) /\ Truthy(ret[w])

\* C22: the presence check is not a lock. On a keystore without the identity,
\* while one legacy call is between its presence check and the end of its
\* import, the presence check of another call can run and sends that call to
\* the vault fetch too; so both calls fetch the key and both run the import.
C22_PresenceCheckIsNoLock ==
    \A w, v \in Workers :
        (/\ w # v
         /\ pc[w] \in {"get_secret", "gpg_import"}
         /\ pc[v] = "list"
         /\ settings_LEGACY_KEY_THUMBPRINT \notin keystore) =>
            ENABLED (list_secret_keys(v, "rc0", keystore) /\ pc'[v] = "get_secret")

\* C22 witness: both calls found no identity in their listing, both have
\* fetched the key and both have run the import.
C22_Witness ==
    \A w \in Workers :
        /\ key_id[w] = LegacyKeyId /\ pc[w] = "gpg_sign"
        /\ res_list[w].rc = "rc0" /\ ~res_list[w].present /\ ~res_list[w].found
        /\ legacy_key_path[w] = "deleted"

\* C23 as stated: after a call for the id c has returned failure, the store
\* holds no record under c.
C23_FailedMeansNoRecord ==
    \A w \in Workers :
        (Returned(w) /\ ~Truthy(ret[w])) =>
            ~redis_exists(get_signature_index(task_id[w]))

\* C23 amended: every call ends in one of two states. Signed: it returned a
\* true value, stored one record, and the record under its id is the location
\* it wrote, which get_signature_file returns. Failed: it returned False and
\* stored nothing, so the id has the record it had before the call: none if no
\* earlier call for the id succeeded, else the record of the latest that did.
C23_SignedOrFailed ==
    \A w \in Workers :
        Returned(w) =>
            LET c == task_id[w]
                earlier == putLog[c]
            IN  IF Truthy(ret[w])
                THEN /\ nPut[w] = 1
                     /\ earlier # <<>> /\ earlier[Len(earlier)] = dst_file[w]
                     /\ get_signature_file(c) = Content(dst_file[w])
                ELSE /\ ret[w] = "False" /\ nPut[w] = 0
                     /\ IF earlier = <<>>
                        THEN get_signature_file(c) = NeverSubmittedOutcome
                        ELSE get_signature_file(c) = Content(earlier[Len(earlier)])

\* C23 witness: a call for an id without an earlier success has failed after
\* its backend produced a signature, and the retrieval that followed found no
\* record.
C23_Witness ==
    \E w \in Workers :
        /\ Returned(w) /\ ret[w] = "False" /\ dst_file[w] # NoPath
        /\ putLog[task_id[w]] = <<>>
        /\ response = [task |-> task_id[w], out |-> NeverSubmittedOutcome]

\* C24: when a legacy-path call has returned, the only signature file it has
\* left on disk is the one whose location it published: none after a failure,
\* one after a success. (The claim as stated, for the signature output files.)
C24_OnlyPublishedFileRemains ==
    \A w \in Sequential :
        (Returned(w) /\ is_legacy(key_id[w])) =>
            DOMAIN fs \subseteq (IF Truthy(ret[w]) THEN {dst_file[w]} ELSE {})

\* the milliseconds slept before attempt n: one sleep after each earlier attempt
RECURSIVE SleptBefore(_)
SleptBefore(n) == IF n <= 1 THEN 0 ELSE SleptBefore(n - 1) + exponential_sleep(n - 1)

\* C25: every sign_request call terminates. A call that has started returns;
\* it makes at most 10 attempts and sleeps at most 9 times, one sleep between
\* two attempts; and once started it ends only by its own return: with a true
\* value, on a terminal error, or when the 10th attempt has failed. No step
\* shortens or restarts the sequence of attempts.
C25_CallTerminates ==
    /\ \A w \in Sequential : (pc[w] \notin {"idle", "done"}) ~> Returned(w)
    /\ [](\A w \in Sequential :
              pc[w] # "idle" =>
                  /\ attempt[w] \in 1..stop_max_attempt_number
                  /\ waited[w] = SleptBefore(attempt[w]))
    /\ [][\A w \in Sequential :
              pc[w] \notin {"idle", "done"} =>
                  /\ attempt'[w] \in {attempt[w], attempt[w] + 1}
                  /\ waited'[w] >= waited[w]
                  /\ (attempt'[w] = attempt[w] => waited'[w] = waited[w])
                  /\ (Returned(w)' =>
                          \/ Truthy(ret'[w])
                          \/ lastOutcome'[w] \in TerminalError
                          \/ attempt[w] = stop_max_attempt_number)]_vars

\* C25 witness: a legacy-path call has returned failure after 10 attempts, the
\* last of which failed in the signing utility, and 9 sleeps.
C25_Witness ==
    \E w \in Sequential :
        /\ Returned(w) /\ is_legacy(key_id[w]) /\ ret[w] = "False"
        /\ attempt[w] = stop_max_attempt_number
        /\ lastOutcome[w] \in {"rc1", "raise"}
        /\ waited[w] = 2000 + 4000 + 8000 + 16000 + 32000 + 4 * wait_exponential_max

\* the locations the successful sign_request calls for the id t have stored
Stored(t) == {putLog[t][i] : i \in 1..Len(putLog[t])}

\* C26: a get_signature_file(c) that runs beside sign_request calls observes
\* either no record, and then none had been stored for c when it looked, or a
\* complete location that a successful sign_request for c stored; what it
\* returns is the signature in that file. It never holds a partly written
\* location and never a location stored for another id.
C26_ReaderSeesWholeRecordOfItsId ==
    /\ [](/\ reading.pc \in {"open", "done"} /\ reading.sig_file # NoPath =>
              /\ reading.sig_file \in Stored(reading.task_id)
              /\ \A u \in TaskIds \ {reading.task_id} : reading.sig_file \notin Stored(u)
          /\ reading.pc = "done" =>
              \/ reading.sig_file = NoPath /\ reading.out = NeverSubmittedOutcome
              \/ reading.sig_file # NoPath /\ reading.out = Content(reading.sig_file))
    /\ [][(reading.pc = "exists" /\ reading'.pc = "done") =>
              Stored(reading.task_id) = {}]_vars

\* C26 witness: the reader took the location of the first sign for its id, a
\* second sign for the same id replaced the record while the reader held it,
\* and the reader returned the first signature.
C26_Witness ==
    /\ reading.pc = "done" /\ reading.task_id # None
    /\ Len(putLog[reading.task_id]) = 2
    /\ reading.sig_file = putLog[reading.task_id][1]
    /\ reading.out = Content(putLog[reading.task_id][1])
    /\ bytes_decode(redis[get_signature_index(reading.task_id)]) = putLog[reading.task_id][2]

\* the backend of w's call completes a signing in this step
CompletesSigning(w) == pc[w] \in {"sign_content", "gpg_sign"} /\ pc'[w] = "redis_set"
\* the redis.set of w's call raises in this step
PutRaises(w) == pc[w] = "redis_set" /\ pc'[w] # "redis_set" /\ nPut'[w] = nPut[w]

\* C27 as stated: in one call the backend completes a signing at most once, and
\* an error of the store's put ends the call without another backend invocation.
C27_PutErrorEndsCall ==
    [][\A w \in Workers :
          /\ CompletesSigning(w) => dst_file[w] = NoPath
          /\ PutRaises(w) => Returned(w)']_vars

\* C27 amended: the record is stored inside the retry-wrapped function, after
\* the backend has succeeded in the same attempt. An error of the store's put
\* is retried like a backend error: below the 10th attempt the wrapper sleeps
\* and the next attempt starts from the top, invoking the backend again; in the
\* 10th attempt the call returns False. The backend completes a signing at most
\* once per attempt and the call stores at most one record.
C27_PutErrorIsRetried ==
    /\ [](\A w \in Workers :
              /\ pc[w] = "redis_set" =>
                     /\ lastOutcome[w] \in BackendSuccess
                     /\ nInvoke[w] >= 1
                     /\ dst_file[w] \in DOMAIN fs
                     /\ nPut[w] = 0
              /\ nInvoke[w] <= attempt[w]
              /\ nPut[w] <= 1)
    /\ [][\A w \in Workers :
              PutRaises(w) =>
                  /\ redis' = redis
                  /\ IF attempt[w] < stop_max_attempt_number
                     THEN /\ pc'[w] = FirstStep(w)
                          /\ attempt'[w] = attempt[w] + 1
                     ELSE Returned(w)' /\ ret'[w] = "False"]_vars

\* C27 witness: the put of the first attempt raised after the backend had
\* signed; the second attempt invoked the backend again, which signed into a
\* second file, and stored the record.
C27_Witness ==
    \E w \in Sequential :
        /\ Returned(w) /\ Truthy(ret[w]) /\ otherFail[w]
        /\ attempt[w] = 2 /\ nInvoke[w] = 2
        /\ DOMAIN fs = {Path(1), Path(2)}
        /\ dst_file[w] = Path(2) /\ putLog[task_id[w]] = <<Path(2)>>

\* w's call is on the remote path
Remote(w) == pc[w] # "idle" /\ ~is_legacy(key_id[w])
\* the remote authority is invoked for w's call in this step
Invoked(w) == pc[w] = "sign_content" /\ nInvoke'[w] = nInvoke[w] + 1
\* the outcomes that decide a call on the remote path
Deciding == {"ok"} \cup TerminalError

\* C28 as stated: on the remote path the invocations of the backend and the
\* result of the call are determined by the backend outcomes alone.
C28_InvocationsFollowOutcomes ==
    /\ [](\A w \in Workers :
              Remote(w) =>
                  /\ pc[w] = "sign_content" => lastOutcome[w] \in {None, "Exception"}
                  /\ Returned(w) => (Truthy(ret[w]) <=> lastOutcome[w] = "ok"))
    /\ [][\A w \in Workers :
              (~is_legacy(key_id[w]) /\ Invoked(w)) =>
                  lastOutcome[w] \in {None, "Exception"}]_vars

\* C28 amended: in a remote-path call whose redis.set does not raise, the
\* number of backend invocations is the position of the first outcome that is
\* a success or a terminal error, or 10 when the first 10 outcomes are all
\* retriable errors, and the call returns success if and only if that outcome
\* is a success.
C28_InvocationsFollowOutcomesIfPutWorks ==
    /\ [](\A w \in Workers :
              (Remote(w) /\ ~otherFail[w]) =>
                  /\ pc[w] = "sign_content" =>
                         /\ nInvoke[w] = attempt[w] - 1
                         /\ nInvoke[w] < stop_max_attempt_number
                         /\ lastOutcome[w] \in {None, "Exception"}
                  /\ pc[w] = "redis_set" =>
                         nInvoke[w] = attempt[w] /\ lastOutcome[w] = "ok"
                  /\ Returned(w) =>
                         /\ nInvoke[w] = attempt[w]
                         /\ \/ lastOutcome[w] \in Deciding
                            \/ lastOutcome[w] = "Exception" /\ nInvoke[w] = stop_max_attempt_number
                         /\ Truthy(ret[w]) <=> lastOutcome[w] = "ok")
    /\ [][\A w \in Workers :
              (~is_legacy(key_id[w]) /\ ~otherFail[w] /\ Invoked(w)) =>
                  lastOutcome[w] \in {None, "Exception"}]_vars

\* C28 witness: two retriable errors and then a terminal error: the call has
\* returned failure after exactly three invocations.
C28_Witness ==
    \E w \in Workers :
        /\ Remote(w) /\ Returned(w) /\ ~otherFail[w]
        /\ nInvoke[w] = 3 /\ attempt[w] = 3
        /\ lastOutcome[w] \in TerminalError /\ ret[w] = "False"

\* the milliseconds w's wrapper slept before its current attempt (0 before the
\* first attempt)
PreviousDelay(w) == waited[w] - SleptBefore(attempt[w] - 1)

\* C29: in every retry sequence each delay is at least the one before it, the
\* first delay is at least 1 second, no delay exceeds 60 seconds, and the time
\* one call spends waiting is at most 9 * 60 seconds.
C29_DelaysBounded ==
    /\ [](\A w \in Workers : waited[w] <= 9 * wait_exponential_max)
    /\ [][\A w \in Workers :
              Retries(w) =>
                  /\ Delay(w) >= PreviousDelay(w)
                  /\ Delay(w) >= 1000
                  /\ Delay(w) <= 60000]_vars

\* C29 witness: a call is in its 10th attempt, the delay before it was the
\* 60 seconds of the cap, and the call has waited more than five such delays.
C29_Witness ==
    \E w \in Workers :
        /\ pc[w] \notin {"idle", "done"}
        /\ attempt[w] = stop_max_attempt_number
        /\ PreviousDelay(w) = wait_exponential_max
        /\ waited[w] > 5 * wait_exponential_max

\* the record under the id t: its stored bytes, or None
Record(t) ==
    IF redis_exists(get_signature_index(t)) THEN redis[get_signature_index(t)] ELSE None

\* C30: records of different ids are independent. Distinct ids have distinct
\* store keys; a step of a sign_request for the id c1, whether the call succeeds
\* or fails, leaves the record of every other id as it is; and what
\* get_signature_file(c2) returns is a signature written by a call for c2,
\* never one written by a call for another id.
C30_RecordsIndependent ==
    /\ [](/\ \A c1, c2 \in TaskIds :
                 c1 # c2 => get_signature_index(c1) # get_signature_index(c2)
          /\ \A c2 \in TaskIds :
                 get_signature_file(c2).kind = "return" =>
                     /\ \E f \in Stored(c2) : get_signature_file(c2) = Content(f)
                     /\ \A c1 \in TaskIds \ {c2} : \A f \in Stored(c1) :
                            get_signature_file(c2) # Content(f)
          /\ (response.task # None /\ response.out.kind = "return") =>
                 \A c1 \in TaskIds \ {response.task} : \A f \in Stored(c1) :
                     response.out # Content(f))
    /\ [][\A w \in Workers, c2 \in TaskIds :
              (pc'[w] # "idle" /\ task_id'[w] # c2 /\ <<pc[w], attempt[w], task_id[w]>> # <<pc'[w], attempt'[w], task_id'[w]>>) =>
                  Record(c2)' = Record(c2)]_vars

\* C30 witness: the ids t1 and t2 both have a record; a call for t1 has then
\* succeeded again and a call for t1 has failed, and the caller of t2 still
\* gets the signature written for t2.
C30_Witness ==
    /\ Len(putLog["t1"]) = 2 /\ Len(putLog["t2"]) = 1
    /\ putLog["t1"][2] = Path(3)
    /\ \E w \in Workers : Returned(w) /\ task_id[w] = "t1" /\ ret[w] = "False"
    /\ response = [task |-> "t2", out |-> Content(putLog["t2"][1])]

\* poll_task has been called in this run of the client
Polling == poll.pc # "idle" /\ poll.task_id # None
\* poll_task returns in this step
PollReturns == poll.pc = "loop" /\ poll'.pc = "output"
\* the latest request the client has sent
LastSent == sent[Len(sent)]

\* C31: poll_task returns only after it has received a task in a finished
\* state. While the last task it received is not finished its next step is to
\* wait and GET the same task again, however many polls it has made, unless a
\* request raises; and the task handler, when given, is called once, after the
\* loop, with the finished task.
C31_PollsUntilFinished ==
    /\ [](/\ (poll.pc = "loop" /\ poll.task.state \notin FINISHED_TASK_STATES
                  /\ Len(sent) < MaxRequests) =>
                 ENABLED poll_task_loop(TRUE, 200, "running")
          /\ (Polling /\ poll.pc = "output") =>
                 /\ poll.task.state \in FINISHED_TASK_STATES
                 /\ poll.task.id = poll.task_id
                 /\ poll.handled = IF poll.task_handler # None THEN <<poll.task>> ELSE <<>>
          /\ poll.pc \in {"first_get", "loop"} => poll.handled = <<>>
          /\ Len(poll.handled) <= 1)
    /\ [][/\ (poll.pc = "loop" /\ poll.task.state \notin FINISHED_TASK_STATES) =>
                 /\ poll'.pc \in {"loop", "raised"}
                 /\ poll'.slept = poll.slept + 1
                 /\ poll'.handled = <<>>
                 /\ Len(sent') > Len(sent) => sent'[Len(sent')].url = TaskUrl(poll.task_id)
          /\ PollReturns =>
                 /\ poll.task.state \in FINISHED_TASK_STATES
                 /\ poll'.task = poll.task]_vars

\* C31 witness: the task was not finished at the first GET nor at the second;
\* after two rounds of the loop it was, the handler was called with it, and
\* the response of the handler was printed.
C31_Witness ==
    /\ poll.pc = "output" /\ poll.slept = 2
    /\ poll.task.state = "completed"
    /\ poll.handled = <<poll.task>>
    /\ Len(sent) = 4 /\ sent[3].url = TaskUrl(poll.task_id)
    /\ echoed # NoOutput

\* C32: when the first GET of poll_task was answered with 401, poll_task has
\* sent the same GET once more and goes on with the second response, with the
\* client that create_client builds. (The claim as stated.)
C32_SecondGetAfter401 ==
    (poll.pc \notin {"idle", "first_get"} /\ sent # <<>> /\ sent[1].status = 401) =>
        /\ Len(sent) >= 2
        /\ sent[2].url = sent[1].url
        /\ poll.exc # "HTTPStatusError" \/ Len(sent) > 1

\* C33: every request the client sends carries as x-correlation-id the
\* correlation id the context had before the request, plus 1, which becomes the
\* id of the context; over the requests of a context the ids are strictly
\* increasing, so no two requests share an id.
C33_CorrelationIdsIncrease ==
    /\ [](/\ \A i, j \in DOMAIN sent :
                 i < j => /\ int16(sent[i].cid) < int16(sent[j].cid)
                          /\ sent[i].cid # sent[j].cid
          /\ \A i \in DOMAIN sent : int16(sent[i].cid) <= int16(cid))
    /\ [][Len(sent') = Len(sent) + 1 =>
              /\ sent'[Len(sent')].cid = format_x(int16(cid) + 1)
              /\ int16(sent'[Len(sent')].cid) = int16(cid) + 1
              /\ cid' = sent'[Len(sent')].cid]_vars

\* C33 witness: three requests of one context, whose ids f, 10 and 11 follow
\* the id e the context began with.
C33_Witness ==
    /\ Len(sent) >= 3
    /\ sent[1].cid = <<"f">> /\ sent[2].cid = <<"1", "0">> /\ sent[3].cid = <<"1", "1">>
    /\ cid = sent[Len(sent)].cid

\* C34: requires_repo_permission lets the request through if and only if the
\* role of the account is Repo_Admin, or Migration, or it is Publisher and the
\* RepoAccess table has a row for this account and this repository; in every
\* other case the request ends with a 403.
C34_RepoPermission ==
    auth.check = "requires_repo_permission" =>
        LET role == auth.account.role
            granted == <<auth.account.id, auth.repo>> \in RepoAccess
        IN  /\ auth.status = 200 <=>
                   \/ role = "Repo_Admin"
                   \/ role = "Migration"
                   \/ role = "Publisher" /\ granted
            /\ auth.status \in {200, 403}

\* C34 witness: a Publisher with access to r1 only has been refused for r2.
C34_Witness ==
    /\ auth.check = "requires_repo_permission"
    /\ auth.account.role = "Publisher"
    /\ <<auth.account.id, "r1">> \in RepoAccess
    /\ auth.repo = "r2" /\ auth.status = 403

\* the rows of the Account table with the oid of the request
Provisioned == {a \in Account : a.oid = auth.oid}
\* the stored signature of the row is hex and is the signature of its hash
Verifies(a) == bytes_fromhex(a.signature) = sign(account_hash(a))
\* the stored signature of the row is hex and signature.verify rejects it
InvalidSignature(a) == bytes_fromhex(a.signature) # <<"ValueError">> /\ ~Verifies(a)

\* C35: get_active_account returns an account only when the request
\* authenticated, the account is the row with the oid of the token, its stored
\* signature verifies against its hash and it is enabled. A request that did
\* not authenticate ends with the 401 of authenticate; an oid without a row, a
\* signature that signature.verify rejects and a disabled account each end the
\* request with a 403 (a signature column that is not hex ends it with the
\* ValueError of bytes.fromhex, a 500); after any of these no account was
\* returned and no role check has run or can run.
C35_ActiveAccountOnly ==
    /\ auth.account # NoAccount =>
           /\ auth.oid # None
           /\ auth.account \in Account
           /\ auth.account.oid = auth.oid
           /\ Verifies(auth.account)
           /\ auth.account.is_enabled
    /\ auth.pc # "idle" /\ auth.account = NoAccount =>
           /\ auth.check = None
           /\ ~ENABLED requires_account_admin
           /\ \A id \in RepoIds : ~ENABLED requires_repo_permission(id)
           /\ auth.oid = None => auth.status = 401
           /\ auth.oid # None /\ Provisioned = {} => auth.status = 403
           /\ \A a \in Provisioned :
                  /\ InvalidSignature(a) => auth.status = 403
                  /\ Verifies(a) /\ ~a.is_enabled => auth.status = 403
                  /\ bytes_fromhex(a.signature) = <<"ValueError">> => auth.status = 500
    /\ auth.check # None => auth.account # NoAccount

\* C35 witness: the request authenticated as o1, whose row is enabled but
\* carries a signature made for other field values; it ended with the 403
\* for the signature and no role check ran.
C35_Witness ==
    /\ auth.pc = "done" /\ auth.oid = "o1"
    /\ \E a \in Provisioned : InvalidSignature(a) /\ a.is_enabled
    /\ auth.status = 403 /\ auth.detail = "Invalid signature"
    /\ auth.account = NoAccount /\ auth.check = None

\* the packages of the latest version of the repository of the call, in
\* listing order
LatestVersion == lookup.versions[Len(lookup.versions)]
\* the release of the call, when one is given
ReleaseGiven == lookup.release \notin {None, ""}
\* the packages of the latest version, of the release when one is given
RepoListing ==
    LET Listed(p) == ReleaseGiven => p.id \in {"a1", "b1"}
    IN  SelectSeq(LatestVersion, Listed)
RequestSize == Len(lookup.package_ids) + Len(lookup.package_queries)
Listed(p) == \E i \in 1..Len(RepoListing) : RepoListing[i] = p

\* C36: package_lookup called with neither package ids nor package queries
\* returns the packages of the latest version of the repository, of the
\* release only when one is given, each exactly once and in listing order; it
\* raises instead of returning only for a release name the repository has no
\* release of.
C36_AllPackagesOfLatestVersion ==
    /\ lookup.pc = "returned" /\ RequestSize = 0 =>
           /\ lookup.ret = RepoListing
           /\ \A i, j \in 1..Len(lookup.ret) : lookup.ret[i] = lookup.ret[j] => i = j
    /\ lookup.pc = "raised" => lookup.release = "nope"

\* C36 witness: a call without ids and queries for the release returned a1 and
\* b1, in that order, of a latest version that also has a2 between them, and
\* nothing of the older version.
C36_Witness ==
    /\ lookup.pc = "returned" /\ RequestSize = 0
    /\ lookup.release = "rel"
    /\ LatestVersion = <<a1, a2, b1>>
    /\ lookup.ret = <<a1, b1>>

RequestedIds == {lookup.package_ids[i] : i \in 1..Len(lookup.package_ids)}
\* the package has the values of a requested query in every natural-key field
MatchesQuery(p) ==
    \E i \in 1..Len(lookup.package_queries) :
        /\ lookup.package_queries[i].name = p.name
        /\ lookup.package_queries[i].version = p.version

\* C37: package_lookup with 10 or more requested items (ids plus queries)
\* returns only packages of the repository listing, each at most once, and
\* each of them has a requested id or the values of a requested query in all
\* natural-key fields; a returned package that is not in the repository listing
\* was looked up by its id in a call with 1 to 9 requested items.
C37_LargeRequestStaysInRepo ==
    lookup.pc = "returned" =>
        /\ RequestSize >= 10 =>
               /\ \A i \in 1..Len(lookup.ret) :
                      /\ Listed(lookup.ret[i])
                      /\ lookup.ret[i].id \in RequestedIds \/ MatchesQuery(lookup.ret[i])
               /\ \A i, j \in 1..Len(lookup.ret) : lookup.ret[i] = lookup.ret[j] => i = j
        /\ \A i \in 1..Len(lookup.ret) :
               ~Listed(lookup.ret[i]) =>
                   /\ RequestSize \in 1..9
                   /\ lookup.ret[i].id \in RequestedIds

\* C37 witness: a call with exactly 10 requested ids, among them the id of
\* a1, which Pulp has but the latest version of the repository has not, and
\* the id of a2, which it has, returned a2 alone.
C37_Witness ==
    /\ lookup.pc = "returned" /\ RequestSize = 10
    /\ lookup.package_ids[1] = "a1" /\ lookup.package_ids[2] = "a2"
    /\ lookup.package_queries = <<>>
    /\ LatestVersion = <<b1, a2>> /\ ~ReleaseGiven
    /\ lookup.ret = <<a2>>

====
